---- MODULE Spec2Model ----
(***************************************************************************)
(* Celestorm: the Execution Layer (celestorm/execution/__init__.py) bound  *)
(* to the copy-on-write transacted Storage of tests/dclscud/execution.py   *)
(* and to the Transport receiver scope (celestorm/transport/__init__.py).  *)
(*                                                                         *)
(* Python values are represented as follows:                               *)
(*   None            the empty sequence <<>>, a value x as <<x>>           *)
(*   dict            a function whose DOMAIN is the set of keys            *)
(*   (rev, value)    a record [revision |-> rev, value |-> value]          *)
(*   attribute map   a set of <<attribute, value>> pairs; an instruction's  *)
(*                   payload None is the empty set                         *)
(***************************************************************************)
EXTENDS Integers, Sequences, FiniteSets, TLC

\* ----------------------------------------------------------------- bounds
NumOids == 2
MaxRound == 3
MaxInstr == 2
MaxRuns == 2
MaxVal == 2

OIDs == 1..NumOids
Attrs == {"display_name", "message"}
Vals == 1..MaxVal

None == <<>>
Some(x) == <<x>>
Get(opt) == opt[1]

\* ------------------------------------------------------------ instructions
\* attribute maps: at most one pair per attribute
AttrMaps == {m \in SUBSET (Attrs \X Vals) :
               \A p \in m, q \in m : p[1] = q[1] => p = q}
FullMaps == {m \in AttrMaps : {p[1] : p \in m} = Attrs}

\* Instruction.__init__: revision 0 carries the whole entity, revision > 0
\* carries the changed attributes, or None when there are none
Instructions ==
    [oid : OIDs, revision : {0}, payload : FullMaps]
    \cup [oid : OIDs, revision : 1..MaxRound, payload : AttrMaps]

method(instruction) ==
    IF instruction.revision # 0
    THEN IF instruction.payload # {} THEN "UPDATE" ELSE "DELETE"
    ELSE "CREATE"

\* astuple(payload): the entity's attribute values
astuple(payload) == [a \in Attrs |-> (CHOOSE p \in payload : p[1] = a)[2]]

\* a merge that gives an attribute the payload does not name a payload value
merge_overwrites(old, payload) ==
    [a \in Attrs |-> IF \E p \in payload : p[1] = a
                     THEN (CHOOSE p \in payload : p[1] = a)[2]
                     ELSE (CHOOSE p \in payload : TRUE)[2]]

\* dict(asdict(old_state), **payload)
merge(old, payload) ==
    [a \in Attrs |-> IF \E p \in payload : p[1] = a
                     THEN (CHOOSE p \in payload : p[1] = a)[2]
                     ELSE old[a]]

\* ------------------------------------------------------------------ dicts
DictSet(d, k, v) == [x \in (DOMAIN d) \cup {k} |-> IF x = k THEN v ELSE d[x]]
DictDel(d, k) == [x \in (DOMAIN d) \ {k} |-> d[x]]
EmptyDict == [x \in {} |-> 0]

\* ---------------------------------------------------------------- storage
SetMax(S) == CHOOSE x \in S : \A y \in S : y <= x

get_last_round(raw) ==
    IF DOMAIN raw # {} THEN SetMax({raw[o].revision : o \in DOMAIN raw}) ELSE 0

get_revision_for(raw, oid) ==
    IF oid \in DOMAIN raw THEN raw[oid].revision ELSE 0

\* Storage.round_accepted: bool(<generator expression>).  The generator is
\* an object and is never iterated; the truth value of an object without
\* __bool__ and __len__ is True, whatever the generator would produce.
round_accepted(raw, sync_round) ==
    LET generator == {o \in DOMAIN raw : raw[o].revision = sync_round}
    IN  generator = generator

\* a begin_transaction that numbers the round itself, after the last stored one
begin_transaction_next_round(raw, sync_round) ==
    [sync_round |-> Some(get_last_round(raw) + 1), temp |-> Some(raw)]

\* Storage.begin_transaction: the new values of _sync_round and _temp
begin_transaction(raw, sync_round) ==
    [sync_round |-> Some(sync_round), temp |-> Some(raw)]

\* finalize_instruction with an UPDATE that keeps the entry's old revision
finalize_keeps_revision(tmp, cur, instruction) ==
    IF cur = None
    THEN [ok |-> FALSE, temp |-> tmp]
    ELSE IF method(instruction) = "CREATE"
    THEN [ok |-> TRUE,
          temp |-> DictSet(tmp, instruction.oid,
                           [revision |-> Get(cur), value |-> astuple(instruction.payload)])]
    ELSE IF instruction.oid \notin DOMAIN tmp
    THEN [ok |-> FALSE, temp |-> tmp]
    ELSE IF tmp[instruction.oid].revision # instruction.revision
    THEN [ok |-> FALSE, temp |-> tmp]
    ELSE IF method(instruction) = "UPDATE"
    THEN [ok |-> TRUE,
          temp |-> DictSet(tmp, instruction.oid,
                           [revision |-> tmp[instruction.oid].revision,
                            value |-> merge(tmp[instruction.oid].value, instruction.payload)])]
    ELSE [ok |-> TRUE, temp |-> DictDel(tmp, instruction.oid)]

\* a finalize_instruction that does not compare the revisions
finalize_any_revision(tmp, cur, instruction) ==
    IF cur = None
    THEN [ok |-> FALSE, temp |-> tmp]
    ELSE IF method(instruction) = "CREATE"
    THEN [ok |-> TRUE,
          temp |-> DictSet(tmp, instruction.oid,
                           [revision |-> Get(cur), value |-> astuple(instruction.payload)])]
    ELSE IF instruction.oid \notin DOMAIN tmp
    THEN [ok |-> FALSE, temp |-> tmp]
    ELSE IF method(instruction) = "UPDATE"
    THEN [ok |-> TRUE,
          temp |-> DictSet(tmp, instruction.oid,
                           [revision |-> Get(cur),
                            value |-> merge(tmp[instruction.oid].value, instruction.payload)])]
    ELSE [ok |-> TRUE, temp |-> DictDel(tmp, instruction.oid)]

\* Storage.finalize_instruction on the working copy tmp of round cur (an
\* option).  Result: [ok |-> FALSE] when the call raises, else the new copy.
finalize_instruction(tmp, cur, instruction) ==
    IF cur = None
    THEN [ok |-> FALSE, temp |-> tmp]
    ELSE IF method(instruction) = "CREATE"
    THEN [ok |-> TRUE,
          temp |-> DictSet(tmp, instruction.oid,
                           [revision |-> Get(cur), value |-> astuple(instruction.payload)])]
    ELSE IF instruction.oid \notin DOMAIN tmp
    THEN [ok |-> FALSE, temp |-> tmp]
    ELSE IF tmp[instruction.oid].revision # instruction.revision
    THEN [ok |-> FALSE, temp |-> tmp]
    ELSE IF method(instruction) = "UPDATE"
    THEN [ok |-> TRUE,
          temp |-> DictSet(tmp, instruction.oid,
                           [revision |-> Get(cur),
                            value |-> merge(tmp[instruction.oid].value, instruction.payload)])]
    ELSE [ok |-> TRUE, temp |-> DictDel(tmp, instruction.oid)]

\* a commit that keeps only the entries the round has written
commit_written_only(raw, tmp) ==
    [x \in {o \in DOMAIN tmp : o \notin DOMAIN raw \/ tmp[o] # raw[o]} |-> tmp[x]]

\* a commit that only does self._storage.update(self._temp), popping no key
commit_update_only(raw, tmp) ==
    [x \in (DOMAIN raw) \cup (DOMAIN tmp) |->
        IF x \in DOMAIN tmp THEN tmp[x] ELSE raw[x]]

\* Storage.commit_transaction: the new committed dict
commit_transaction(raw, tmp) ==
    LET deleted_keys == (DOMAIN raw) \ (DOMAIN tmp)
        popped == [x \in (DOMAIN raw) \ deleted_keys |-> raw[x]]
    IN  [x \in (DOMAIN popped) \cup (DOMAIN tmp) |->
            IF x \in DOMAIN tmp THEN tmp[x] ELSE popped[x]]

\* a rollback that swaps the working copy (an option) in, as commit does
rollback_commits(raw, tmp) ==
    IF tmp = None THEN raw ELSE commit_transaction(raw, Get(tmp))

\* Storage.rollback_transaction: the committed dict is not touched
rollback_transaction(raw, tmp) == raw

\* ------------------------------------------------------------- validation
\* _check_instruction with the two outcomes of the comparison exchanged
check_instruction_swapped(instruction, raw, sync_round) ==
    IF 0 < sync_round /\ sync_round <= instruction.revision
    THEN "SynchronizationError"
    ELSE LET revision == get_revision_for(raw, instruction.oid)
         IN  IF revision < instruction.revision THEN "ExecutionError"
             ELSE IF revision > instruction.revision THEN "SynchronizationError"
             ELSE "ok"

\* _check_instruction accepting the revision of the round itself
check_instruction_off_by_one(instruction, raw, sync_round) ==
    IF 0 < sync_round /\ sync_round < instruction.revision
    THEN "SynchronizationError"
    ELSE LET revision == get_revision_for(raw, instruction.oid)
         IN  IF revision < instruction.revision THEN "SynchronizationError"
             ELSE IF revision > instruction.revision THEN "ExecutionError"
             ELSE "ok"

\* Layer._check_instruction: "ok" or the name of the exception raised
check_instruction(instruction, raw, sync_round) ==
    IF 0 < sync_round /\ sync_round <= instruction.revision
    THEN "SynchronizationError"
    ELSE LET revision == get_revision_for(raw, instruction.oid)
         IN  IF revision < instruction.revision THEN "SynchronizationError"
             ELSE IF revision > instruction.revision THEN "ExecutionError"
             ELSE "ok"

\* Finalizer._check_instruction (celestorm.storage)
finalizer_check_instruction(instruction, raw, sync_round) ==
    IF instruction.revision < sync_round
    THEN LET revision == get_revision_for(raw, instruction.oid)
         IN  IF revision = instruction.revision THEN "ok"
             ELSE IF revision < instruction.revision THEN "ExecutionCritical"
             ELSE "ExecutionError"
    ELSE "ExecutionCritical"

\* ------------------------------------------------------------ exceptions
\* handlers that warn for no exception, for every exception, and for
\* FinalizationError as well
isinstance_nothing(e) == FALSE
isinstance_Exception(e) == TRUE
isinstance_ExecutionOrFinalizationError(e) ==
    e \in {"ExecutionError", "FinalizationError"}

\* start_sync_context: isinstance(exc, ExecutionError)
isinstance_ExecutionError(e) == e = "ExecutionError"

\* main without its except clause
main_result_unguarded(e) == IF e = "" THEN "ok" ELSE e

\* main: try ... except asyncio.CancelledError: pass.  The outcome of the task
\* when the exception e ("" for none) leaves the receiver scope.
main_result(e) == IF e \in {"", "CancelledError"} THEN "ok" ELSE e

\* ------------------------------------------------------------------ state
VARIABLES
    pc,              \* the await at which Layer.start.main is suspended
    runs,            \* number of Layer.start() calls so far
    from_round,      \* main: from_round
    sync_round,      \* main: sync_round of the package being executed
    pkg_left,        \* chunks of the package not yet deserialized
    exc,             \* the exception in flight ("" when none)
    result,          \* outcome of the main task
    cancelled,       \* Task.cancel() was called on the main task
    storage,         \* Storage._storage
    temp,            \* Storage._temp
    st_sync_round,   \* Storage._sync_round
    connections,     \* Transport._connections
    last_error,      \* Connection.last_error of every connection made
    net_round,       \* sync round of the last package taken from the network
    g_outcome,       \* history: how the scope of the last round ended
    g_dropped,       \* history: this run has dropped a round by ExecutionError
    g_checked,       \* history: the last instruction checked in this round, as
                     \*   [revision, stored, finalizer]: its revision, the
                     \*   revision get_revision_for returned for its oid, and
                     \*   the answer of Finalizer._check_instruction for it
    g_round,         \* history: argument of the last begin_transaction
    g_run,           \* history: the run (value of runs) that made that call
    g_begin_state,   \* history: Storage._storage at the begin of a round not committed
    g_finalized,     \* history: finalize_instruction calls that returned, this round
    g_touched,       \* history: oids created or updated, this round
    g_commits,       \* history: commit_transaction calls since the last begin
    g_rollbacks,     \* history: rollback_transaction calls since the last begin
    g_overlap        \* history: a begin_transaction found a transaction open

\* the Connection of celestorm/celestia/transport.py and its recv_packages
VARIABLES
    api,             \* Connection.__api: "NodeAPI | None", "NodeAPI" or "None"
    cm,              \* Connection._cm has been set
    namespaces,      \* recv_packages: (namespace, *namespaces)
    recv_from_round, \* recv_packages: from_round
    recv_pc,         \* recv_packages: where the generator is suspended
    from_height,     \* recv_packages: from_height
    curr_height,     \* recv_packages: curr_height
    height,          \* recv_packages: height
    blobs,           \* recv_packages: blobs not yet yielded
    call_exc,        \* exception raised by the last call on the connection
    g_call,          \* history: the last call, as [op, api]: the method and
                     \*   the value of Connection.__api it found
    g_submits,       \* history: blob.submit calls made on the node
    g_node_calls,    \* history: the last call reached the node
    g_prev_yield,    \* history: sync_round yielded before the last one
    g_last_yield,    \* history: sync_round yielded last
    g_fetched,       \* history: the heights blob.get_all was called with
    g_max_curr,      \* history: the largest curr_height the subscription gave
    g_sent_blob      \* history: the last send_package, as [height, index,
                     \*   sync_round]: where the node put the blob, and the
                     \*   value send_package returned

celestia_vars == <<api, cm, namespaces, recv_from_round, recv_pc, from_height,
                   curr_height, height, blobs, call_exc, g_call, g_submits,
                   g_node_calls, g_prev_yield, g_last_yield, g_fetched,
                   g_max_curr, g_sent_blob>>

\* a transmitter scope and a receiver scope of one Transport (with the pool
\* `connections` and the connections' `last_error` above), used directly as
\* tests/test_transport.py does, and the deque its connections share
VARIABLES
    accum,           \* Connection._accum: the (sync_round, package) items
    tx_pc,           \* enter_transmitter_context: where the scope is
    tx_scopes,       \* transmitter scopes entered so far
    tx_last_round,   \* transmitter(last_round): last_round
    instructions,    \* transmitter: instructions
    tx_sync_round,   \* _Transmitter.sync_round
    tx_sent_count,   \* _Transmitter.sent_count
    tx_exc,          \* exception leaving the transmitter scope ("" when none)
    rx_pc,           \* enter_receiver_context / _receiver: where the scope is
    rx_from_round,   \* receiver(from_round): from_round
    rx_exc,          \* exception leaving the receiver scope ("" when none)
    g_sent,          \* history: every item appended to the deque
    g_yielded,       \* history: every item the receiver has yielded
    g_sends,         \* history: send_package calls of the current scope
    g_closed         \* history: connections close_connection was called on

scope_vars == <<accum, tx_pc, tx_scopes, tx_last_round, instructions,
                tx_sync_round, tx_sent_count, tx_exc, rx_pc, rx_from_round,
                rx_exc, g_sent, g_yielded, g_sends, g_closed>>

\* one Package: built from instructions, possibly signed, its bytes possibly
\* replaced or cut in transit, then opened and deserialized
VARIABLES
    c_pc,            \* where the package is: "new", "built", then deserialize's
                     \*   "chunks", and "done" or "raised"
    c_dialect,       \* the Package class: "impl" (tests/impl/encoding.py) or
                     \*   "packaging" (celestorm/encoding/packaging.py)
    c_instrs,        \* the instructions given to the constructor
    pkg,             \* the package's bytes
    stream,          \* deserialize: position of the BytesIO stream
    package_size,    \* deserialize: package_size, chunks still to read
    hasher,          \* deserialize: the bytes the hasher has been updated with
    c_yielded,       \* deserialize: the instructions yielded so far
    c_exc,           \* message of the exception raised by build or deserialize
    sign_exc,        \* exception raised by the last sign call ("" when none)
    c_signs,         \* sign calls made
    g_built,         \* history: the bytes as build returned them
    g_presign,       \* history: the bytes the last successful sign was called on
    g_edit,          \* history: the change made in transit, as [kind, pos]
    g_short          \* history: a chunk shorter than its declared length was yielded

codec_vars == <<c_pc, c_dialect, c_instrs, pkg, stream, package_size, hasher,
                c_yielded, c_exc, sign_exc, c_signs, g_built, g_presign, g_edit,
                g_short>>

\* the DA network as a Layer on the DA-backed connection sees it over several
\* runs: the blocks do not change, and every run's receiver reads them anew
VARIABLES
    chain,           \* the package in the block of each height (blob index 0)
    da_height,       \* recv_packages of each run's connection: the height
                     \*   whose blob it yielded last
    g_committed      \* history: the sync rounds committed so far, in any run

da_vars == <<chain, da_height, g_committed>>

\* everything that is not state of the Execution Layer and its collaborators
outside_layer_vars == <<celestia_vars, scope_vars, codec_vars, da_vars>>

exec_vars == <<pc, runs, from_round, sync_round, pkg_left, exc, result,
          cancelled, storage, temp, st_sync_round, connections, last_error,
          net_round, g_outcome, g_dropped, g_checked, g_round, g_run, g_begin_state, g_finalized,
          g_touched, g_commits, g_rollbacks, g_overlap>>

vars == <<exec_vars, outside_layer_vars>>

layer_vars == <<from_round, sync_round, pkg_left>>
storage_vars == <<storage, temp, st_sync_round>>
transport_vars == <<connections, last_error>>
history_vars == <<g_outcome, g_dropped, g_checked, g_round, g_run, g_begin_state, g_finalized,
                  g_touched, g_commits, g_rollbacks, g_overlap>>

do_close_exc == "Connection closed"
connection == runs

LayerInit ==
    /\ pc = "idle"
    /\ runs = 0
    /\ from_round = 0
    /\ sync_round = 0
    /\ pkg_left = 0
    /\ exc = ""
    /\ result = "none"
    /\ cancelled = FALSE
    /\ storage = EmptyDict
    /\ temp = None
    /\ st_sync_round = None
    /\ connections = {}
    /\ last_error = EmptyDict
    /\ net_round = 0
    /\ g_outcome = "none"
    /\ g_dropped = FALSE
    /\ g_checked = None
    /\ g_round = 0
    /\ g_run = 0
    /\ g_begin_state = None
    /\ g_finalized = 0
    /\ g_touched = {}
    /\ g_commits = 0
    /\ g_rollbacks = 0
    /\ g_overlap = FALSE

\* Connection.__init__ of celestorm/celestia/transport.py; recv_packages not called
ConnectionInit ==
    /\ api = "NodeAPI | None"
    /\ cm = FALSE
    /\ namespaces = <<>>
    /\ recv_from_round = 0
    /\ recv_pc = "new"
    /\ from_height = 0
    /\ curr_height = 0
    /\ height = 0
    /\ blobs = <<>>
    /\ call_exc = ""
    /\ g_call = None
    /\ g_submits = 0
    /\ g_node_calls = FALSE
    /\ g_prev_yield = None
    /\ g_last_yield = None
    /\ g_fetched = <<>>
    /\ g_max_curr = 0
    /\ g_sent_blob = None

\* no transmitter or receiver scope entered, nothing sent
ScopesInit ==
    /\ accum = <<>>
    /\ tx_pc = "idle"
    /\ tx_scopes = 0
    /\ tx_last_round = 0
    /\ instructions = <<>>
    /\ tx_sync_round = None
    /\ tx_sent_count = 0
    /\ tx_exc = ""
    /\ rx_pc = "idle"
    /\ rx_from_round = 0
    /\ rx_exc = ""
    /\ g_sent = <<>>
    /\ g_yielded = <<>>
    /\ g_sends = 0
    /\ g_closed = {}

\* no package constructed yet
PackageInit ==
    /\ c_pc = "new"
    /\ c_dialect = ""
    /\ pkg = <<>>
    /\ stream = 0
    /\ package_size = 0
    /\ hasher = <<>>
    /\ c_yielded = <<>>
    /\ c_exc = ""
    /\ sign_exc = ""
    /\ c_signs = 0
    /\ g_built = <<>>
    /\ g_presign = None
    /\ g_edit = None
    /\ g_short = FALSE

CodecInit == PackageInit /\ c_instrs = <<>>

\* no DA network in view
DaInit ==
    /\ chain = <<>>
    /\ da_height = EmptyDict
    /\ g_committed = {}

Init == LayerInit /\ ConnectionInit /\ ScopesInit /\ CodecInit /\ DaInit

\* Layer.start: start_context creates the main task
Start ==
    /\ pc \in {"idle", "done"}
    /\ runs < MaxRuns
    /\ pc' = "get_last_round"
    /\ runs' = runs + 1
    /\ from_round' = 0
    /\ sync_round' = 0
    /\ pkg_left' = 0
    /\ exc' = ""
    /\ result' = "pending"
    /\ cancelled' = FALSE
    /\ g_dropped' = FALSE
    /\ UNCHANGED <<storage_vars, transport_vars, net_round, g_outcome, g_checked,
                   g_round, g_run, g_begin_state, g_finalized, g_touched, g_commits, g_rollbacks,
                   g_overlap>>
    /\ UNCHANGED outside_layer_vars

\* main: from_round = (await self._storage.get_last_round()) + 1
GetLastRound ==
    /\ pc = "get_last_round"
    /\ from_round' = get_last_round(storage) + 1
    /\ pc' = "enter_recv"
    /\ UNCHANGED <<runs, sync_round, pkg_left, exc, result, cancelled,
                   storage_vars, transport_vars, net_round, history_vars>>
    /\ UNCHANGED outside_layer_vars

\* enter_receiver_context: the connection is made and put into the pool
EnterReceiver ==
    /\ pc = "enter_recv"
    /\ connections' = connections \cup {connection}
    /\ last_error' = DictSet(last_error, connection, "")
    /\ pc' = "open_connection"
    /\ UNCHANGED <<runs, layer_vars, exc, result, cancelled, storage_vars,
                   net_round, history_vars>>
    /\ UNCHANGED outside_layer_vars

\* Connection.open_connection, then the receiver is handed to main
OpenConnection ==
    /\ pc = "open_connection"
    /\ last_error' = DictSet(last_error, connection, "")
    /\ pc' = "recv"
    /\ UNCHANGED <<runs, layer_vars, exc, result, cancelled, storage_vars,
                   connections, net_round, history_vars>>
    /\ UNCHANGED outside_layer_vars

\* a Connection.close that leaves the connection as it is
connection_close_nothing(err) == err

\* a Connection.close that reports a connection already closed
connection_close_once(err) ==
    IF err = do_close_exc THEN "Already closed" ELSE do_close_exc

\* Connection.close of tests/dclscud/transport.py: the new last_error
connection_close(err) == do_close_exc

\* Transport.close: the new last_error of every connection made
transport_close(conns, errs) ==
    [c \in DOMAIN errs |->
        IF c \in conns THEN connection_close(errs[c]) ELSE errs[c]]

\* Transport.close: every pooled connection is closed
TransportClose ==
    /\ \E c \in connections : last_error[c] = ""
    /\ last_error' = transport_close(connections, last_error)
    /\ UNCHANGED <<pc, runs, layer_vars, exc, result, cancelled, storage_vars,
                   connections, net_round, history_vars>>
    /\ UNCHANGED outside_layer_vars

\* Connection.recv_packages: the next package is taken from the network; one
\* older than from_round is dropped, any other is yielded to main
RecvPackage ==
    /\ pc = "recv"
    /\ last_error[connection] = ""
    /\ \E r \in (net_round + 1)..MaxRound, n \in 0..MaxInstr :
          /\ net_round' = r
          /\ IF r >= from_round
             THEN /\ sync_round' = r
                  /\ pkg_left' = n
                  /\ pc' = "begin"
             ELSE UNCHANGED <<sync_round, pkg_left, pc>>
    /\ UNCHANGED <<runs, from_round, exc, result, cancelled,
                   storage_vars, transport_vars, history_vars>>
    /\ UNCHANGED outside_layer_vars

\* Connection.recv_packages ends once the connection is closed
RecvEnd ==
    /\ pc = "recv"
    /\ last_error[connection] # ""
    /\ pc' = "exit_recv"
    /\ UNCHANGED <<runs, layer_vars, exc, result, cancelled, storage_vars,
                   transport_vars, net_round, history_vars>>
    /\ UNCHANGED outside_layer_vars

\* start_sync_context: await self._storage.begin_transaction(sync_round)
BeginTransaction ==
    /\ pc = "begin"
    /\ st_sync_round' = begin_transaction(storage, sync_round).sync_round
    /\ temp' = begin_transaction(storage, sync_round).temp
    /\ pc' = "deser"
    /\ g_outcome' = "open"
    /\ g_checked' = None
    /\ g_round' = sync_round
    /\ g_run' = runs
    /\ g_begin_state' = Some(storage)
    /\ g_finalized' = 0
    /\ g_touched' = {}
    /\ g_commits' = 0
    /\ g_rollbacks' = 0
    /\ g_overlap' = (g_overlap \/ st_sync_round # None)
    /\ UNCHANGED <<runs, layer_vars, exc, result, cancelled, storage,
                   transport_vars, net_round, g_dropped>>
    /\ UNCHANGED outside_layer_vars

\* Layer._execute_instruction for the instruction a chunk parsed to: it is
\* checked and then finalized
execute(chunk) ==
    /\ pc = "deser"
    /\ pkg_left > 0
    /\ LET chk == check_instruction(chunk, storage, sync_round)
           fin == finalize_instruction(Get(temp), st_sync_round, chunk)
       IN  /\ g_checked' = Some([revision |-> chunk.revision,
                                  stored |-> get_revision_for(storage, chunk.oid),
                                  finalizer |-> finalizer_check_instruction(
                                                    chunk, storage, sync_round)])
           /\ IF chk # "ok"
              THEN /\ exc' = chk
                   /\ pc' = "rollback"
                   /\ UNCHANGED <<pkg_left, temp, g_finalized, g_touched>>
              ELSE IF ~fin.ok
              THEN /\ exc' = "FinalizationError"
                   /\ pc' = "rollback"
                   /\ UNCHANGED <<pkg_left, temp, g_finalized, g_touched>>
              ELSE /\ temp' = Some(fin.temp)
                   /\ pkg_left' = pkg_left - 1
                   /\ pc' = "deser"
                   /\ exc' = exc
                   /\ g_finalized' = g_finalized + 1
                   /\ g_touched' = IF method(chunk) = "DELETE"
                                   THEN g_touched \ {chunk.oid}
                                   ELSE g_touched \cup {chunk.oid}
    /\ UNCHANGED <<runs, from_round, sync_round, result, cancelled, storage,
                   st_sync_round, transport_vars, net_round, g_outcome, g_dropped,
                   g_round, g_run, g_begin_state, g_commits, g_rollbacks, g_overlap>>

\* main, one turn of `async for instruction in package.deserialize():
\* await execute(instruction)`: the next chunk parses to an instruction
ExecuteInstruction ==
    /\ \E chunk \in Instructions : execute(chunk)
    /\ UNCHANGED outside_layer_vars

\* Package.deserialize: the next chunk does not parse to an instruction
DeserializeFail ==
    /\ pc = "deser"
    /\ pkg_left > 0
    /\ exc' = "DeserializeError"
    /\ pc' = "rollback"
    /\ UNCHANGED <<runs, layer_vars, result, cancelled, storage_vars,
                   transport_vars, net_round, history_vars>>
    /\ UNCHANGED outside_layer_vars

\* a scope that goes on to commit whatever the digest check said
after_deserialize_commits(hash_ok) == "commit"

\* main and start_sync_context when the iterator of deserialize is exhausted:
\* the scope's body ends and the round is committed, or the VerifyError of
\* the digest check is thrown into the scope, whose handler rolls back
after_deserialize(hash_ok) == IF hash_ok THEN "commit" ELSE "rollback"

\* Package.deserialize: after the last chunk the digest is compared with the
\* running hash; the iterator ends or VerifyError is raised
DeserializeEnd ==
    /\ pc = "deser"
    /\ pkg_left = 0
    /\ \E hash_ok \in BOOLEAN :
          /\ pc' = after_deserialize(hash_ok)
          /\ exc' = IF hash_ok THEN exc ELSE "VerifyError"
    /\ UNCHANGED <<runs, layer_vars, result, cancelled, storage_vars,
                   transport_vars, net_round, history_vars>>
    /\ UNCHANGED outside_layer_vars

\* start_sync_context: await self._storage.commit_transaction()
commit ==
    /\ pc = "commit"
    /\ storage' = commit_transaction(storage, Get(temp))
    /\ temp' = None
    /\ st_sync_round' = None
    /\ pc' = "recv"
    /\ g_outcome' = "committed"
    /\ g_begin_state' = None
    /\ g_commits' = g_commits + 1
    /\ UNCHANGED <<runs, layer_vars, exc, result, cancelled, transport_vars,
                   net_round, g_dropped, g_checked, g_round, g_run, g_finalized,
                   g_touched, g_rollbacks, g_overlap>>

Commit ==
    /\ commit
    /\ UNCHANGED outside_layer_vars

\* start_sync_context, except Exception: rollback, then warn or re-raise
Rollback ==
    /\ pc = "rollback"
    /\ storage' = rollback_transaction(storage, temp)
    /\ temp' = None
    /\ st_sync_round' = None
    /\ g_outcome' = exc
    /\ g_dropped' = (g_dropped \/ isinstance_ExecutionError(exc))
    /\ g_rollbacks' = g_rollbacks + 1
    /\ IF isinstance_ExecutionError(exc)
       THEN exc' = "" /\ pc' = "recv"
       ELSE exc' = exc /\ pc' = "exit_recv"
    /\ UNCHANGED <<runs, layer_vars, result, cancelled,
                   transport_vars, net_round, g_checked, g_round, g_run, g_begin_state,
                   g_finalized, g_touched, g_commits, g_overlap>>
    /\ UNCHANGED outside_layer_vars

\* enter_receiver_context, finally: remove and close the connection; then
\* main ends, swallowing only asyncio.CancelledError
ExitReceiver ==
    /\ pc = "exit_recv"
    /\ connections' = connections \ {connection}
    /\ last_error' = DictSet(last_error, connection, do_close_exc)
    /\ result' = main_result(exc)
    /\ exc' = ""
    /\ pc' = "done"
    /\ UNCHANGED <<runs, layer_vars, cancelled, storage_vars, net_round,
                   history_vars>>
    /\ UNCHANGED outside_layer_vars

\* start_context, finally: self._main_task.cancel().  CancelledError is raised
\* at the await main is suspended in; it is no Exception, so the handler of
\* start_sync_context does not run for it.
Cancel ==
    /\ pc \in {"get_last_round", "enter_recv", "open_connection", "recv",
               "begin", "deser", "commit"}
    /\ ~cancelled
    /\ cancelled' = TRUE
    /\ IF pc \in {"get_last_round", "enter_recv"}
       THEN /\ pc' = "done"
            /\ result' = main_result("CancelledError")
            /\ exc' = ""
       ELSE /\ pc' = "exit_recv"
            /\ result' = result
            /\ exc' = "CancelledError"
    /\ g_outcome' = IF pc \in {"deser", "commit"}
                    THEN "CancelledError"
                    ELSE g_outcome
    /\ UNCHANGED <<runs, layer_vars, storage_vars, transport_vars, net_round,
                   g_dropped, g_checked, g_round, g_run, g_begin_state, g_finalized,
                   g_touched, g_commits, g_rollbacks, g_overlap>>
    /\ UNCHANGED outside_layer_vars

Next ==
    \/ Start
    \/ GetLastRound
    \/ EnterReceiver
    \/ OpenConnection
    \/ TransportClose
    \/ RecvPackage
    \/ RecvEnd
    \/ BeginTransaction
    \/ ExecuteInstruction
    \/ DeserializeFail
    \/ DeserializeEnd
    \/ Commit
    \/ Rollback
    \/ ExitReceiver
    \/ Cancel

Spec == Init /\ [][Next]_vars

\* ---------------------------------------------------------------------------
\* Layer.start_sync used directly (as tests/test_execution.py does in
\* test_layer_expanded): one sync round R, R = 0 included, on a storage that
\* holds no round after R.  A round can find its own number stored:
\* Connection.recv_packages of celestorm/celestia/transport.py resumes at the
\* height from_round >> 16 and delivers every blob of that height again.
Entries(R) == [revision : 1..R, value : [Attrs -> Vals]]
StoragesUpTo(R) == UNION {[D -> Entries(R)] : D \in SUBSET OIDs}

InitSync ==
    /\ pc = "begin"
    /\ runs = 1
    /\ from_round = 0
    /\ sync_round \in 0..MaxRound
    /\ pkg_left \in 0..MaxInstr
    /\ exc = ""
    /\ result = "pending"
    /\ cancelled = FALSE
    /\ storage \in StoragesUpTo(sync_round)
    /\ temp = None
    /\ st_sync_round = None
    /\ connections = {1}
    /\ last_error = [c \in {1} |-> ""]
    /\ net_round = sync_round
    /\ g_outcome = "none"
    /\ g_dropped = FALSE
    /\ g_checked = None
    /\ g_round = 0
    /\ g_run = 0
    /\ g_begin_state = None
    /\ g_finalized = 0
    /\ g_touched = {}
    /\ g_commits = 0
    /\ g_rollbacks = 0
    /\ g_overlap = FALSE
    /\ ConnectionInit
    /\ ScopesInit
    /\ CodecInit
    /\ DaInit

NextSync ==
    \/ BeginTransaction
    \/ ExecuteInstruction
    \/ DeserializeFail
    \/ DeserializeEnd
    \/ Commit
    \/ Rollback

SyncSpec == InitSync /\ [][NextSync]_vars

\* ---------------------------------------------------------------------------
\* The Connection of celestorm/celestia/transport.py, used directly: the
\* lifecycle methods, send_package, and the generator recv_packages.

MaxHeight == 2
MaxIndex == 1
MaxSubmits == 1
Shift16 == 65536

Namespaces == {1, 2}
NamespaceArgs == {<<1>>, <<2>>, <<1, 2>>, <<2, 1>>}
Heights == 1..MaxHeight
\* blob.index is the position of the blob's first share in the block's
\* square, which is not limited to 16 bits
Indexes == (0..MaxIndex) \cup {Shift16}

\* (height << 16) + blob.index
composite_round(h, index) == h * Shift16 + index

SetMin(S) == CHOOSE x \in S : \A y \in S : x <= y

RECURSIVE SortedSeq(_)
SortedSeq(S) == IF S = {} THEN <<>>
                ELSE <<SetMin(S)>> \o SortedSeq(S \ {SetMin(S)})

\* The shares of a block are ordered by namespace: the blobs of namespace 1
\* lie at the indexes below k, those of namespace 2 at k and above.
namespace_at(index, k) == IF index < k THEN 1 ELSE 2

\* api.blob.get_all(height, *namespaces): the node answers namespace by
\* namespace, in the order the namespaces were given
RECURSIVE get_all(_, _, _)
get_all(block, k, nss) ==
    IF nss = <<>> THEN <<>>
    ELSE SortedSeq({i \in block : namespace_at(i, k) = Head(nss)})
         \o get_all(block, k, Tail(nss))

\* Connection.api followed by an attribute of the NodeAPI: the exception raised
\* ("" for none)
node_call(a) ==
    IF a = "None" THEN "ConnectionClosed"
    ELSE IF a = "NodeAPI" THEN ""
    ELSE "AttributeError"

\* a loop that forgets `from_height = curr_height + 1`
next_height_keeps_from(h, ch, fh) ==
    IF h < ch
    THEN [pc |-> "get_all", height |-> h + 1, from_height |-> fh]
    ELSE [pc |-> "subscribed", height |-> h, from_height |-> fh]

\* recv_packages: the end of one turn of `for N in range(...)`, and of the
\* while loop after the last turn
next_height(h, ch, fh) ==
    IF h < ch
    THEN [pc |-> "get_all", height |-> h + 1, from_height |-> fh]
    ELSE [pc |-> "subscribed", height |-> h, from_height |-> ch + 1]

\* Connection.open_connection: the client connects, or fails to
CelestiaOpenConnection ==
    /\ \E connected \in BOOLEAN :
          /\ api' = IF connected THEN "NodeAPI" ELSE api
          /\ call_exc' = IF connected THEN "" ELSE "ConnectionError"
    /\ cm' = TRUE
    /\ g_call' = Some([op |-> "open_connection", api |-> api])
    /\ g_node_calls' = TRUE
    /\ UNCHANGED <<exec_vars, scope_vars, codec_vars, da_vars, namespaces, recv_from_round, recv_pc, from_height,
                   curr_height, height, blobs, g_submits, g_prev_yield,
                   g_last_yield>>
    /\ UNCHANGED <<g_fetched, g_max_curr, g_sent_blob>>

\* the values Connection.__api takes: the object `NodeAPI | None` that
\* __init__ assigns, the NodeAPI of open_connection, and None
ApiValues == {"NodeAPI | None", "NodeAPI", "None"}

\* Connection.close of celestorm/celestia/transport.py: the new __api
celestia_close(a) == "None"

\* Connection.close
CelestiaClose ==
    /\ api' = celestia_close(api)
    /\ call_exc' = ""
    /\ g_call' = Some([op |-> "close", api |-> api])
    /\ g_node_calls' = FALSE
    /\ UNCHANGED <<exec_vars, scope_vars, codec_vars, da_vars, cm, namespaces, recv_from_round, recv_pc,
                   from_height, curr_height, height, blobs, g_submits,
                   g_prev_yield, g_last_yield>>
    /\ UNCHANGED <<g_fetched, g_max_curr, g_sent_blob>>

\* Connection.close_connection
CelestiaCloseConnection ==
    /\ api' = "None"
    /\ call_exc' = IF cm THEN "" ELSE "AttributeError"
    /\ g_call' = Some([op |-> "close_connection", api |-> api])
    /\ g_node_calls' = cm
    /\ UNCHANGED <<exec_vars, scope_vars, codec_vars, da_vars, cm, namespaces, recv_from_round, recv_pc,
                   from_height, curr_height, height, blobs, g_submits,
                   g_prev_yield, g_last_yield>>
    /\ UNCHANGED <<g_fetched, g_max_curr, g_sent_blob>>

\* Connection.send_package: the node includes the blob in a block at
\* rv.height, where blob.get finds it at blob.index
CelestiaSendPackage ==
    /\ g_submits < MaxSubmits
    /\ call_exc' = node_call(api)
    /\ IF node_call(api) = ""
       THEN \E rv_height \in Heights, index \in Indexes :
               g_sent_blob' = Some([height |-> rv_height, index |-> index,
                                    sync_round |-> composite_round(rv_height, index)])
       ELSE UNCHANGED g_sent_blob
    /\ g_call' = Some([op |-> "send_package", api |-> api])
    /\ g_node_calls' = (node_call(api) = "")
    /\ g_submits' = IF node_call(api) = "" THEN g_submits + 1 ELSE g_submits
    /\ UNCHANGED <<exec_vars, scope_vars, codec_vars, da_vars, api, cm, namespaces, recv_from_round, recv_pc,
                   from_height, curr_height, height, blobs, g_prev_yield,
                   g_last_yield, g_fetched, g_max_curr>>

\* recv_packages, first step of the generator: from_height = from_round >> 16,
\* then self.api.header.subscribe(...)
CelestiaRecvPackages ==
    /\ recv_pc = "new"
    /\ from_height' = recv_from_round \div Shift16
    /\ call_exc' = node_call(api)
    /\ recv_pc' = IF node_call(api) = "" THEN "subscribed" ELSE "raised"
    /\ g_call' = Some([op |-> "recv_packages", api |-> api])
    /\ g_node_calls' = (node_call(api) = "")
    /\ UNCHANGED <<exec_vars, scope_vars, codec_vars, da_vars, api, cm, namespaces, recv_from_round,
                   curr_height, height, blobs, g_submits, g_prev_yield,
                   g_last_yield>>
    /\ UNCHANGED <<g_fetched, g_max_curr, g_sent_blob>>

\* recv_packages: the subscription delivers a header; while from_height <=
\* curr_height the heights from_height .. curr_height are fetched
CelestiaRecvHeader ==
    /\ recv_pc = "subscribed"
    /\ \E h \in Heights :
          /\ curr_height' = h
          /\ g_max_curr' = IF h > g_max_curr THEN h ELSE g_max_curr
          /\ IF from_height <= h
             THEN recv_pc' = "get_all" /\ height' = from_height
             ELSE UNCHANGED <<recv_pc, height>>
    /\ UNCHANGED <<exec_vars, scope_vars, codec_vars, da_vars, api, cm, namespaces, recv_from_round, from_height,
                   blobs, call_exc, g_call, g_submits, g_node_calls,
                   g_prev_yield, g_last_yield, g_fetched, g_sent_blob>>

\* recv_packages: if height > 0: blobs := await self.api.blob.get_all(...)
CelestiaRecvGetAll ==
    /\ recv_pc = "get_all"
    /\ IF height > 0 /\ node_call(api) # ""
       THEN /\ recv_pc' = "raised"
            /\ call_exc' = node_call(api)
            /\ g_call' = Some([op |-> "recv_packages", api |-> api])
            /\ g_node_calls' = FALSE
            /\ UNCHANGED <<height, from_height, blobs, g_fetched>>
       ELSE /\ UNCHANGED <<call_exc, g_call, g_node_calls>>
            /\ g_fetched' = IF height > 0 THEN Append(g_fetched, height)
                            ELSE g_fetched
            /\ \E block \in SUBSET Indexes, k \in 0..(MaxIndex + 1) :
                  LET answer == IF height > 0
                                THEN get_all(block, k, namespaces)
                                ELSE <<>>
                      nxt == next_height(height, curr_height, from_height)
                  IN  IF answer # <<>>
                      THEN /\ blobs' = answer
                           /\ recv_pc' = "yield"
                           /\ UNCHANGED <<height, from_height>>
                      ELSE /\ blobs' = <<>>
                           /\ recv_pc' = nxt.pc
                           /\ height' = nxt.height
                           /\ from_height' = nxt.from_height
    /\ UNCHANGED <<exec_vars, scope_vars, codec_vars, da_vars, api, cm, namespaces, recv_from_round, curr_height,
                   g_submits, g_prev_yield, g_last_yield, g_max_curr,
                   g_sent_blob>>

\* recv_packages: yield (height << 16) + blob.index, blob.data, ...
CelestiaRecvYield ==
    /\ recv_pc = "yield"
    /\ g_prev_yield' = g_last_yield
    /\ g_last_yield' = Some(composite_round(height, Head(blobs)))
    /\ blobs' = Tail(blobs)
    /\ LET nxt == next_height(height, curr_height, from_height)
       IN  IF Tail(blobs) # <<>>
           THEN UNCHANGED <<recv_pc, height, from_height>>
           ELSE /\ recv_pc' = nxt.pc
                /\ height' = nxt.height
                /\ from_height' = nxt.from_height
    /\ UNCHANGED <<exec_vars, scope_vars, codec_vars, da_vars, api, cm, namespaces, recv_from_round, curr_height,
                   call_exc, g_call, g_submits, g_node_calls>>
    /\ UNCHANGED <<g_fetched, g_max_curr, g_sent_blob>>

\* a connection just made, and the arguments recv_packages will be called with
InitCelestia ==
    /\ LayerInit
    /\ api = "NodeAPI | None"
    /\ cm = FALSE
    /\ namespaces \in NamespaceArgs
    /\ recv_from_round \in {composite_round(h, i) : h \in 0..MaxHeight, i \in Indexes}
    /\ recv_pc = "new"
    /\ from_height = 0
    /\ curr_height = 0
    /\ height = 0
    /\ blobs = <<>>
    /\ call_exc = ""
    /\ g_call = None
    /\ g_submits = 0
    /\ g_node_calls = FALSE
    /\ g_prev_yield = None
    /\ g_last_yield = None
    /\ g_fetched = <<>>
    /\ g_max_curr = 0
    /\ g_sent_blob = None
    /\ ScopesInit
    /\ CodecInit
    /\ DaInit

NextCelestia ==
    \/ CelestiaOpenConnection
    \/ CelestiaClose
    \/ CelestiaCloseConnection
    \/ CelestiaSendPackage
    \/ CelestiaRecvPackages
    \/ CelestiaRecvHeader
    \/ CelestiaRecvGetAll
    \/ CelestiaRecvYield

CelestiaSpec == InitCelestia /\ [][NextCelestia]_vars

\* ---------------------------------------------------------------------------
\* Transport.transmitter and Transport.receiver used directly, on one
\* Transport whose connections (tests/dclscud/transport.py) share a deque.
\* The connection of the n-th transmitter scope is n, the receiver's is 0.
\* open_connection, send_package and close_connection of that Connection do
\* not suspend, so each runs within one step.

MaxScopes == 2

layer_rest_vars == <<pc, runs, layer_vars, exc, result, cancelled, storage_vars,
                     net_round, history_vars>>

tx_connection == tx_scopes
rx_connection == 0

\* Transport.active
active(conns) == Cardinality(conns) > 0

\* a scope exit that leaves the connection in the pool
pool_keep(conns, c) == conns

\* enter_*_context, finally: self._connections.remove(connection)
pool_remove(conns, c) == conns \ {c}

\* a send_package that does not look at last_error
send_package_unchecked(err, acc, last_round, package) ==
    [exc |-> "", accum |-> Append(acc, <<last_round + 1, package>>),
     sync_round |-> Some(last_round + 1)]

\* a send_package that delivers the package twice
send_package_twice(err, acc, last_round, package) ==
    IF err # ""
    THEN [exc |-> err, accum |-> acc, sync_round |-> None]
    ELSE [exc |-> "",
          accum |-> acc \o <<<<last_round + 1, package>>, <<last_round + 1, package>>>>,
          sync_round |-> Some(last_round + 1)]

\* Connection.send_package: the exception raised ("" for none), the deque
\* afterwards and the sync_round returned
send_package(err, acc, last_round, package) ==
    IF err # ""
    THEN [exc |-> err, accum |-> acc, sync_round |-> None]
    ELSE [exc |-> "", accum |-> Append(acc, <<last_round + 1, package>>),
          sync_round |-> Some(last_round + 1)]

\* a receiver that treats the close of its connection as an error
recv_end_raises(err) == err

\* Connection.recv_packages after its loop, and _receiver: the exception that
\* reaches the consumer when the connection's last_error is err
recv_end(err) == IF err # do_close_exc THEN err ELSE ""

\* Transport.transmitter, entry: the connection is made, pooled and opened
TxEnter ==
    /\ tx_pc \in {"idle", "done"}
    /\ tx_scopes < MaxScopes
    /\ tx_scopes' = tx_scopes + 1
    /\ tx_last_round' = IF tx_sync_round # None THEN Get(tx_sync_round)
                        ELSE tx_last_round
    /\ instructions' = <<>>
    /\ tx_sync_round' = None
    /\ tx_sent_count' = 0
    /\ g_sends' = 0
    /\ connections' = connections \cup {tx_scopes + 1}
    /\ last_error' = DictSet(last_error, tx_scopes + 1, "")
    /\ \E opened \in BOOLEAN :
          IF opened THEN tx_pc' = "body" /\ tx_exc' = ""
          ELSE tx_pc' = "exit" /\ tx_exc' = "ConnectionError"
    /\ UNCHANGED <<layer_rest_vars, celestia_vars, codec_vars, da_vars, accum, rx_pc, rx_from_round,
                   rx_exc, g_sent, g_yielded, g_closed>>

\* _Transmitter.__call__
TxCall ==
    /\ tx_pc = "body"
    /\ Len(instructions) < MaxInstr
    /\ \E i \in OIDs : instructions' = Append(instructions, i)
    /\ UNCHANGED <<layer_rest_vars, celestia_vars, codec_vars, da_vars, transport_vars, accum, tx_pc,
                   tx_scopes, tx_last_round, tx_sync_round, tx_sent_count,
                   tx_exc, rx_pc, rx_from_round, rx_exc, g_sent, g_yielded,
                   g_sends, g_closed>>

\* the body of the transmitter scope raises, or its task is cancelled
TxBodyRaise ==
    /\ tx_pc = "body"
    /\ tx_exc' \in {"BodyError", "CancelledError"}
    /\ tx_pc' = "exit"
    /\ UNCHANGED <<layer_rest_vars, celestia_vars, codec_vars, da_vars, transport_vars, accum,
                   tx_scopes, tx_last_round, instructions, tx_sync_round,
                   tx_sent_count, rx_pc, rx_from_round, rx_exc, g_sent,
                   g_yielded, g_sends, g_closed>>

\* the body ends: package = packager(instructions), send_package, and the
\* results recorded on the transmitter
TxSend ==
    /\ tx_pc = "body"
    /\ LET sent == send_package(last_error[tx_connection], accum,
                                tx_last_round, instructions)
       IN  /\ accum' = sent.accum
           /\ g_sent' = g_sent \o SubSeq(sent.accum, Len(accum) + 1, Len(sent.accum))
           /\ tx_exc' = sent.exc
           /\ IF sent.exc = ""
              THEN /\ tx_sync_round' = sent.sync_round
                   /\ tx_sent_count' = Len(instructions)
              ELSE UNCHANGED <<tx_sync_round, tx_sent_count>>
    /\ g_sends' = g_sends + 1
    /\ tx_pc' = "exit"
    /\ UNCHANGED <<layer_rest_vars, celestia_vars, codec_vars, da_vars, transport_vars, tx_scopes,
                   tx_last_round, instructions, rx_pc, rx_from_round, rx_exc,
                   g_yielded, g_closed>>

\* enter_transmitter_context, finally
TxExit ==
    /\ tx_pc = "exit"
    /\ connections' = pool_remove(connections, tx_connection)
    /\ last_error' = DictSet(last_error, tx_connection,
                             connection_close(last_error[tx_connection]))
    /\ g_closed' = g_closed \cup {tx_connection}
    /\ tx_pc' = "done"
    /\ UNCHANGED <<layer_rest_vars, celestia_vars, codec_vars, da_vars, accum, tx_scopes,
                   tx_last_round, instructions, tx_sync_round, tx_sent_count,
                   tx_exc, rx_pc, rx_from_round, rx_exc, g_sent, g_yielded,
                   g_sends>>

\* Transport.receiver, entry: the connection is made, pooled and opened
RxEnter ==
    /\ rx_pc = "idle"
    /\ connections' = connections \cup {rx_connection}
    /\ last_error' = DictSet(last_error, rx_connection, "")
    /\ \E opened \in BOOLEAN :
          IF opened THEN rx_pc' = "recv" /\ rx_exc' = ""
          ELSE rx_pc' = "exit" /\ rx_exc' = "ConnectionError"
    /\ UNCHANGED <<layer_rest_vars, celestia_vars, codec_vars, da_vars, accum, tx_pc, tx_scopes,
                   tx_last_round, instructions, tx_sync_round, tx_sent_count,
                   tx_exc, rx_from_round, g_sent, g_yielded, g_sends, g_closed>>

\* the consumer asks for the next item: Connection.recv_packages ends once
\* last_error is set, else takes the head of the deque and yields it unless
\* it is older than from_round
RxRecv ==
    /\ rx_pc = "recv"
    /\ IF last_error[rx_connection] # ""
       THEN /\ rx_exc' = recv_end(last_error[rx_connection])
            /\ rx_pc' = "exit"
            /\ UNCHANGED <<accum, g_yielded>>
       ELSE /\ accum # <<>>
            /\ accum' = Tail(accum)
            /\ rx_exc' = rx_exc
            /\ IF Head(accum)[1] >= rx_from_round
               THEN /\ g_yielded' = Append(g_yielded, Head(accum))
                    /\ rx_pc' = "body"
               ELSE UNCHANGED <<g_yielded, rx_pc>>
    /\ UNCHANGED <<layer_rest_vars, celestia_vars, codec_vars, da_vars, transport_vars, tx_pc,
                   tx_scopes, tx_last_round, instructions, tx_sync_round,
                   tx_sent_count, tx_exc, rx_from_round, g_sent, g_sends,
                   g_closed>>

\* the consumer has handled the item
RxBodyDone ==
    /\ rx_pc = "body"
    /\ rx_pc' = "recv"
    /\ UNCHANGED <<layer_rest_vars, celestia_vars, codec_vars, da_vars, transport_vars, accum, tx_pc,
                   tx_scopes, tx_last_round, instructions, tx_sync_round,
                   tx_sent_count, tx_exc, rx_from_round, rx_exc, g_sent,
                   g_yielded, g_sends, g_closed>>

\* the body of the receiver scope raises, or its task is cancelled
RxBodyRaise ==
    /\ rx_pc \in {"recv", "body"}
    /\ rx_exc' \in IF rx_pc = "body" THEN {"BodyError", "CancelledError"}
                   ELSE {"CancelledError"}
    /\ rx_pc' = "exit"
    /\ UNCHANGED <<layer_rest_vars, celestia_vars, codec_vars, da_vars, transport_vars, accum, tx_pc,
                   tx_scopes, tx_last_round, instructions, tx_sync_round,
                   tx_sent_count, tx_exc, rx_from_round, g_sent, g_yielded,
                   g_sends, g_closed>>

\* enter_receiver_context, finally
RxExit ==
    /\ rx_pc = "exit"
    /\ connections' = pool_remove(connections, rx_connection)
    /\ last_error' = DictSet(last_error, rx_connection,
                             connection_close(last_error[rx_connection]))
    /\ g_closed' = g_closed \cup {rx_connection}
    /\ rx_pc' = "done"
    /\ UNCHANGED <<layer_rest_vars, celestia_vars, codec_vars, da_vars, accum, tx_pc, tx_scopes,
                   tx_last_round, instructions, tx_sync_round, tx_sent_count,
                   tx_exc, rx_from_round, rx_exc, g_sent, g_yielded, g_sends>>

InitTransport ==
    /\ LayerInit
    /\ ConnectionInit
    /\ CodecInit
    /\ DaInit
    /\ accum = <<>>
    /\ tx_pc = "idle"
    /\ tx_scopes = 0
    /\ tx_last_round = 0
    /\ instructions = <<>>
    /\ tx_sync_round = None
    /\ tx_sent_count = 0
    /\ tx_exc = ""
    /\ rx_pc = "idle"
    /\ rx_from_round \in 0..MaxScopes
    /\ rx_exc = ""
    /\ g_sent = <<>>
    /\ g_yielded = <<>>
    /\ g_sends = 0
    /\ g_closed = {}

NextTransport ==
    \/ TxEnter
    \/ TxCall
    \/ TxBodyRaise
    \/ TxSend
    \/ TxExit
    \/ RxEnter
    \/ RxRecv
    \/ RxBodyDone
    \/ RxBodyRaise
    \/ RxExit
    \/ TransportClose

TransportSpec == InitTransport /\ [][NextTransport]_vars

\* ---------------------------------------------------------------------------
\* The Package codec: the Package of tests/impl/encoding.py, made concrete by
\* tests/impl/dclscud.py, and Package.build / Package.deserialize of
\* celestorm/encoding/packaging.py.  bytes are sequences over 0..255; a
\* position is counted from 0 as in Python.

MaxChunks == 2
MaxSigns == 2

version == 1
digest_size == 32
sign_size == 64

Min(a, b) == IF a < b THEN a ELSE b
Max(a, b) == IF a > b THEN a ELSE b

\* b[pos:] and b[:size], negative arguments counted from the end
SliceFrom(b, pos) ==
    SubSeq(b, (IF pos >= 0 THEN Min(pos, Len(b)) ELSE Max(Len(b) + pos, 0)) + 1, Len(b))
SliceTo(b, size) ==
    SubSeq(b, 1, IF size >= 0 THEN Min(size, Len(b)) ELSE Max(Len(b) + size, 0))

\* BytesIO.read(n) at position pos: as many bytes as are left, at most n
read(b, pos, n) == SubSeq(b, pos + 1, Min(pos + n, Len(b)))

\* int.from_bytes(chunk, byteorder='little') of at most two bytes
from_bytes(chunk) ==
    IF Len(chunk) = 0 THEN 0
    ELSE IF Len(chunk) = 1 THEN chunk[1]
    ELSE chunk[1] + 256 * chunk[2]

\* n.to_bytes(2) with the most significant byte first
to_bytes_big(n) == <<(n \div 256) % 256, n % 256>>

\* n.to_bytes(2, byteorder='little')
to_bytes(n) == <<n % 256, (n \div 256) % 256>>

\* byte & 0b10000000, byte & 0b01000000 (as truth values), byte & 0b00111111
flag_signature(byte) == byte \div 128 = 1
flag_digest(byte) == (byte \div 64) % 2 = 1
low_bits(byte) == byte % 64

\* byte | 0b10000000 and byte | 0b01000000
or_signature(byte) == IF flag_signature(byte) THEN byte ELSE byte + 128
or_digest(byte) == IF flag_digest(byte) THEN byte ELSE byte + 64

\* a hash that is the same for every message
sha256_constant(message) == [i \in 1..digest_size |-> 0]

\* hashlib.sha256(message).digest().  SHA-256 is taken as collision free: this
\* stand-in has digest_size bytes and gives different digests to different
\* messages as long as one of the two is shorter than digest_size bytes,
\* which every header-plus-body region built here is.
sha256(message) ==
    [i \in 1..digest_size |->
        ((IF i <= Len(message) THEN 7 * message[i] ELSE 0) + 13 * i + Len(message)) % 256]

\* SigningKey.sign(digest).signature: sign_size bytes fixed by key and digest
key_sign(key, digest) ==
    [i \in 1..sign_size |-> (3 * digest[((i - 1) % digest_size) + 1] + key + i) % 256]

\* varint.encode
RECURSIVE encode(_)
encode(number) ==
    IF number \div 128 # 0
    THEN <<(number % 128) + 128>> \o encode(number \div 128)
    ELSE <<number % 128>>

\* varint.decode_stream_ex on the stream b at position pos: eof when the
\* stream ends within the number (EOFError), else the number, the bytes read
\* and the new position
RECURSIVE decode_loop(_, _, _, _, _)
decode_loop(b, pos, weight, number, bytes_read) ==
    IF pos >= Len(b)
    THEN [eof |-> TRUE, size |-> 0, read |-> bytes_read, pos |-> pos]
    ELSE LET i == b[pos + 1]
         IN  IF i >= 128
             THEN decode_loop(b, pos + 1, weight * 128, number + (i % 128) * weight,
                              Append(bytes_read, i))
             ELSE [eof |-> FALSE, size |-> number + (i % 128) * weight,
                   read |-> Append(bytes_read, i), pos |-> pos + 1]

decode_stream_ex(b, pos) == decode_loop(b, pos, 1, 0, <<>>)

\* ------------------------------------------------- instruction serialization
\* Instruction.serialize of tests/impl/dclscud.py writes the JSON text
\* [[class, *keys], revision, payload?].  Here the text is '[', the revision
\* digit, the key, then the values of the entity (CREATE) or the
\* attribute : value pairs (UPDATE) or nothing (DELETE), and ']'.
attr_byte(a) == IF a = "display_name" THEN 100 ELSE 109
byte_attr(b) == IF b = 100 THEN "display_name" ELSE "message"
AttrBytes == {attr_byte(a) : a \in Attrs}
DigitBytes == 48..57

payload_bytes(instruction) ==
    IF method(instruction) = "CREATE"
    THEN <<48 + astuple(instruction.payload)["display_name"],
           48 + astuple(instruction.payload)["message"]>>
    ELSE (IF \E p \in instruction.payload : p[1] = "display_name"
          THEN <<attr_byte("display_name"),
                 48 + (CHOOSE p \in instruction.payload : p[1] = "display_name")[2]>>
          ELSE <<>>)
         \o
         (IF \E p \in instruction.payload : p[1] = "message"
          THEN <<attr_byte("message"),
                 48 + (CHOOSE p \in instruction.payload : p[1] = "message")[2]>>
          ELSE <<>>)

serialize(instruction) ==
    <<91, 48 + instruction.revision, 64 + instruction.oid>>
        \o payload_bytes(instruction) \o <<93>>

\* Instruction.deserialize: ok is FALSE when it raises
\* DeserializeError("Cannot deserialize instruction")
deserialize_instruction(data) ==
    LET n == Len(data)
        bad == [ok |-> FALSE, instruction |-> <<>>]
    IN  IF n < 4 THEN bad
        ELSE IF data[1] # 91 \/ data[n] # 93 THEN bad
        ELSE IF data[2] \notin DigitBytes \/ data[3] \notin {64 + o : o \in OIDs} THEN bad
        ELSE LET revision == data[2] - 48
                 oid == data[3] - 64
                 args == SubSeq(data, 4, n - 1)
             IN  IF revision = 0
                 THEN IF Len(args) = 2 /\ \A k \in 1..2 : args[k] \in DigitBytes
                      THEN [ok |-> TRUE,
                            instruction |->
                                [oid |-> oid, revision |-> 0,
                                 payload |-> {<<"display_name", args[1] - 48>>,
                                              <<"message", args[2] - 48>>}]]
                      ELSE bad
                 ELSE IF /\ Len(args) % 2 = 0
                         /\ \A k \in 1..(Len(args) \div 2) :
                               /\ args[2 * k - 1] \in AttrBytes
                               /\ args[2 * k] \in DigitBytes
                      THEN [ok |-> TRUE,
                            instruction |->
                                [oid |-> oid, revision |-> revision,
                                 payload |->
                                    {<<byte_attr(args[2 * k - 1]), args[2 * k] - 48>> :
                                        k \in {j \in 1..(Len(args) \div 2) :
                                                 \A l \in (j + 1)..(Len(args) \div 2) :
                                                     args[2 * l - 1] # args[2 * j - 1]}}]]
                      ELSE bad

\* ----------------------------------------------------------------- building
\* the chunks of the body: varint.encode(len(serialized)) + serialized, each
RECURSIVE chunks(_)
chunks(instrs) ==
    IF instrs = <<>> THEN <<>>
    ELSE encode(Len(serialize(Head(instrs)))) \o serialize(Head(instrs))
             \o chunks(Tail(instrs))

\* Package._create_from of tests/impl/encoding.py
create_from(instrs) ==
    LET unsealed == <<version>> \o to_bytes(Len(instrs)) \o chunks(instrs)
        hash == sha256(chunks(instrs))
    IN  <<or_digest(unsealed[1])>> \o Tail(unsealed) \o hash

\* Package.build of celestorm/encoding/packaging.py, signer an option
build(instrs, signer) ==
    LET header == <<IF signer # None THEN or_signature(version) ELSE version>>
                      \o to_bytes(Len(instrs))
        hash == sha256(header \o chunks(instrs))
    IN  header \o chunks(instrs) \o hash
            \o (IF signer # None THEN key_sign(Get(signer), hash) ELSE <<>>)

\* ---------------------------------------------------------------- accessors
\* _get_digest_slice that takes no account of a signature
get_digest_slice_unsigned(b) ==
    IF flag_digest(b[1])
    THEN [pos |-> Len(b) - digest_size, size |-> digest_size]
    ELSE [pos |-> -1, size |-> 0]

\* Package._get_digest_slice, _get_signature_slice, _get_body_slice
get_digest_slice(b) ==
    IF flag_digest(b[1])
    THEN [pos |-> (Len(b) - digest_size) - (IF flag_signature(b[1]) THEN sign_size ELSE 0),
          size |-> digest_size]
    ELSE [pos |-> -1, size |-> 0]

get_signature_slice(b) ==
    IF flag_signature(b[1])
    THEN [pos |-> Len(b) - sign_size, size |-> sign_size]
    ELSE [pos |-> -1, size |-> 0]

get_body_slice(b) ==
    LET size == get_digest_slice(b).pos
    IN  [pos |-> 3, size |-> (IF size < 0 THEN Len(b) ELSE size) - 3]

\* Package.body, and Package.digest and Package.signature as options
body(b) == SliceTo(SliceFrom(b, get_body_slice(b).pos), get_body_slice(b).size)

digest(b) ==
    IF get_digest_slice(b).pos >= 0
    THEN Some(SliceTo(SliceFrom(b, get_digest_slice(b).pos), get_digest_slice(b).size))
    ELSE None

signature(b) ==
    IF get_signature_slice(b).pos >= 0
    THEN Some(SliceTo(SliceFrom(b, get_signature_slice(b).pos),
                      get_signature_slice(b).size))
    ELSE None

\* `not x` for an optional bytes value: None and b'' are false
falsy(opt) == opt = None \/ Get(opt) = <<>>

\* Package.sign: the exception raised ("" when none) and the package returned
sign(b, key) ==
    IF Len(b) = 0 THEN [exc |-> "IndexError", package |-> b]
    ELSE IF falsy(digest(b)) THEN [exc |-> "SignError", package |-> b]
    ELSE IF ~falsy(signature(b)) THEN [exc |-> "SignError", package |-> b]
    ELSE [exc |-> "",
          package |-> <<or_signature(b[1])>> \o Tail(b) \o key_sign(key, Get(digest(b)))]

\* ------------------------------------------------------------------ actions
\* a CREATE, every UPDATE and the DELETE of each oid, first revision
CodecInstructions ==
    {i \in Instructions : i.revision <= 1 /\ \A p \in i.payload : p[2] = 1}
InstructionLists == UNION {[1..n -> CodecInstructions] : n \in 0..MaxChunks}

Keys == {1}
Signers == {None} \cup {Some(k) : k \in Keys}

\* bytes put in place of a byte in transit: no character of an instruction,
\* a digit, and a byte with the varint continuation bit
TamperBytes == {1, 50, 133}

\* end of the body region of the package as built
body_end == 3 + Len(chunks(c_instrs))

\* Package(instructions) of tests/impl/dclscud.py, or Package.build
PackageBuild ==
    /\ c_pc = "new"
    /\ \E d \in {"impl", "packaging"}, signer \in Signers :
          /\ d = "impl" => signer = None
          /\ c_dialect' = d
          /\ IF Len(c_instrs) > 65535
             THEN /\ c_exc' = "Too many instructions; maximum package size is 65535"
                  /\ c_pc' = "raised"
                  /\ UNCHANGED <<pkg, g_built>>
             ELSE /\ pkg' = IF d = "impl" THEN create_from(c_instrs)
                                           ELSE build(c_instrs, signer)
                  /\ g_built' = pkg'
                  /\ c_pc' = "built"
                  /\ c_exc' = c_exc
    /\ UNCHANGED <<c_instrs, stream, package_size, hasher, c_yielded, sign_exc,
                   c_signs, g_presign, g_edit, g_short>>
    /\ UNCHANGED <<exec_vars, celestia_vars, scope_vars, da_vars>>

\* package.sign(key)
PackageSign ==
    /\ c_pc = "built"
    /\ c_dialect = "impl"
    /\ c_signs < MaxSigns
    /\ \E key \in Keys :
          /\ sign_exc' = sign(pkg, key).exc
          /\ pkg' = sign(pkg, key).package
          /\ g_presign' = IF sign(pkg, key).exc = "" THEN Some(pkg) ELSE g_presign
    /\ c_signs' = c_signs + 1
    /\ UNCHANGED <<c_pc, c_dialect, c_instrs, stream, package_size, hasher,
                   c_yielded, c_exc, g_built, g_edit, g_short>>
    /\ UNCHANGED <<exec_vars, celestia_vars, scope_vars, da_vars>>

\* in transit one byte of the header, of the body or the first of the digest
\* is replaced (tests/test_encoding.py: serialized[:21] + b'XXX' + serialized[24:])
PackageReplace ==
    /\ c_pc = "built"
    /\ g_edit = None
    /\ \E pos \in 0..Min(body_end, Len(pkg) - 1), byte \in TamperBytes :
          /\ pkg[pos + 1] # byte
          /\ pkg' = [pkg EXCEPT ![pos + 1] = byte]
          /\ g_edit' = Some([kind |-> "replace", pos |-> pos])
    /\ UNCHANGED <<c_pc, c_dialect, c_instrs, stream, package_size, hasher,
                   c_yielded, c_exc, sign_exc, c_signs, g_built, g_presign, g_short>>
    /\ UNCHANGED <<exec_vars, celestia_vars, scope_vars, da_vars>>

\* in transit the bytes are cut to a length within the header or the body
PackageCut ==
    /\ c_pc = "built"
    /\ g_edit = None
    /\ \E n \in 0..Min(body_end, Len(pkg)) - 1 :
          /\ pkg' = SubSeq(pkg, 1, n)
          /\ g_edit' = Some([kind |-> "cut", pos |-> n])
    /\ UNCHANGED <<c_pc, c_dialect, c_instrs, stream, package_size, hasher,
                   c_yielded, c_exc, sign_exc, c_signs, g_built, g_presign, g_short>>
    /\ UNCHANGED <<exec_vars, celestia_vars, scope_vars, da_vars>>

\* Package(bytes).deserialize(), up to the chunk loop: the version is
\* tested and the count read; packaging.py also hashes the three bytes
PackageDeserialize ==
    /\ c_pc = "built"
    /\ IF low_bits(from_bytes(read(pkg, 0, 1))) # version
       THEN /\ c_exc' = "Wrong package version"
            /\ c_pc' = "raised"
            /\ UNCHANGED <<stream, package_size, hasher>>
       ELSE /\ c_pc' = "chunks"
            /\ stream' = Min(3, Len(pkg))
            /\ package_size' = from_bytes(read(pkg, 1, 2))
            /\ hasher' = IF c_dialect = "packaging"
                         THEN read(pkg, 0, 1) \o read(pkg, 1, 2)
                         ELSE <<>>
            /\ c_exc' = c_exc
    /\ UNCHANGED <<c_dialect, c_instrs, pkg, c_yielded, sign_exc, c_signs,
                   g_built, g_presign, g_edit, g_short>>
    /\ UNCHANGED <<exec_vars, celestia_vars, scope_vars, da_vars>>

\* one turn of `while package_size:`: the length is decoded, the chunk
\* read and yielded, and deserialize turns it into an instruction
PackageNextChunk ==
    /\ c_pc = "chunks"
    /\ package_size # 0
    /\ LET decoded == decode_stream_ex(pkg, stream)
           chunk == read(pkg, decoded.pos, decoded.size)
           parsed == deserialize_instruction(chunk)
       IN  IF decoded.eof
           THEN /\ c_exc' = "Wrong package size"
                /\ c_pc' = "raised"
                /\ UNCHANGED <<stream, package_size, hasher, c_yielded, g_short>>
           ELSE /\ hasher' = hasher \o decoded.read \o chunk
                /\ stream' = decoded.pos + Len(chunk)
                /\ g_short' = (g_short \/ Len(chunk) < decoded.size)
                /\ IF parsed.ok
                   THEN /\ c_yielded' = Append(c_yielded, parsed.instruction)
                        /\ package_size' = package_size - 1
                        /\ UNCHANGED <<c_pc, c_exc>>
                   ELSE /\ c_exc' = "Cannot deserialize instruction"
                        /\ c_pc' = "raised"
                        /\ UNCHANGED <<package_size, c_yielded>>
    /\ UNCHANGED <<c_dialect, c_instrs, pkg, sign_exc, c_signs, g_built,
                   g_presign, g_edit>>
    /\ UNCHANGED <<exec_vars, celestia_vars, scope_vars, da_vars>>

\* after the loop: hash = stream.read(hasher.digest_size) is compared with
\* hasher.digest()
PackageVerifyHash ==
    /\ c_pc = "chunks"
    /\ package_size = 0
    /\ IF read(pkg, stream, digest_size) # sha256(hasher)
       THEN c_exc' = "Wrong package hash" /\ c_pc' = "raised"
       ELSE c_exc' = c_exc /\ c_pc' = "done"
    /\ UNCHANGED <<c_dialect, c_instrs, pkg, stream, package_size, hasher,
                   c_yielded, sign_exc, c_signs, g_built, g_presign, g_edit, g_short>>
    /\ UNCHANGED <<exec_vars, celestia_vars, scope_vars, da_vars>>

InitCodec ==
    /\ LayerInit
    /\ ConnectionInit
    /\ ScopesInit
    /\ PackageInit
    /\ DaInit
    /\ c_instrs \in InstructionLists

NextCodec ==
    \/ PackageBuild
    \/ PackageSign
    \/ PackageReplace
    \/ PackageCut
    \/ PackageDeserialize
    \/ PackageNextChunk
    \/ PackageVerifyHash

CodecSpec == InitCodec /\ [][NextCodec]_vars

\* ---------------------------------------------------------------------------
\* The Layer on the DA-backed connection, started more than once on one
\* storage.  The DA network has MaxHeight blocks, each with one package at
\* blob index 0; the blocks do not change, and the receiver of every run is a
\* new recv_packages generator that reads them from from_round >> 16 on.

DaRevisions == {0} \cup {composite_round(h, 0) : h \in Heights}

\* the instructions the packages are made of: CREATE, and UPDATE or DELETE of
\* the revision an earlier round has left
DaInstructions ==
    [oid : OIDs, revision : {0}, payload : {{<<a, 1>> : a \in Attrs}}]
    \cup [oid : OIDs, revision : DaRevisions \ {0},
          payload : {{}, {<<"message", MaxVal>>}}]

DaPackages ==
    UNION {[1..n -> DaInstructions] : n \in 0..MaxInstr}

\* the working copy after _execute_instruction has taken every instruction of
\* a package in round r, on the committed dict raw: None if one was rejected
RECURSIVE execute_all(_, _, _, _)
execute_all(raw, tmp, r, package) ==
    IF package = <<>> THEN Some(tmp)
    ELSE LET fin == finalize_instruction(tmp, Some(r), Head(package))
         IN  IF check_instruction(Head(package), raw, r) # "ok" \/ ~fin.ok
             THEN None
             ELSE execute_all(raw, fin.temp, r, Tail(package))

\* main's loop over the blocks h, h + 1, ... on the committed dict raw: every
\* round is committed
RECURSIVE all_committed(_, _, _)
all_committed(c, h, raw) ==
    IF h > MaxHeight THEN TRUE
    ELSE LET tmp == execute_all(raw, raw, composite_round(h, 0), c[h])
         IN  /\ tmp # None
             /\ all_committed(c, h + 1, commit_transaction(raw, Get(tmp)))

\* the chains a Layer that starts on the empty storage and is not disturbed
\* commits block by block
Chains == {c \in [Heights -> DaPackages] : all_committed(c, 1, EmptyDict)}

\* recv_packages: the height the generator of this run fetches next
da_next_height ==
    IF connection \in DOMAIN da_height THEN da_height[connection] + 1
    ELSE IF from_round \div Shift16 > 1 THEN from_round \div Shift16
    ELSE 1

\* recv_packages of the run's connection yields the blob of the next height
DaRecvPackage ==
    /\ pc = "recv"
    /\ last_error[connection] = ""
    /\ da_next_height <= MaxHeight
    /\ da_height' = DictSet(da_height, connection, da_next_height)
    /\ sync_round' = composite_round(da_next_height, 0)
    /\ pkg_left' = Len(chain[da_next_height])
    /\ pc' = "begin"
    /\ UNCHANGED <<runs, from_round, exc, result, cancelled, storage_vars,
                   transport_vars, net_round, history_vars>>
    /\ UNCHANGED <<celestia_vars, scope_vars, codec_vars, chain, g_committed>>

\* main, one turn of `async for instruction in package.deserialize():
\* await execute(instruction)` on the package of the block
DaExecuteInstruction ==
    /\ LET package == chain[sync_round \div Shift16]
       IN  execute(package[Len(package) - pkg_left + 1])
    /\ UNCHANGED outside_layer_vars

\* start_sync_context: await self._storage.commit_transaction()
DaCommit ==
    /\ commit
    /\ g_committed' = g_committed \cup {sync_round}
    /\ UNCHANGED <<celestia_vars, scope_vars, codec_vars, chain, da_height>>

InitRestart ==
    /\ LayerInit
    /\ ConnectionInit
    /\ ScopesInit
    /\ CodecInit
    /\ chain \in Chains
    /\ da_height = EmptyDict
    /\ g_committed = {}

NextRestart ==
    \/ Start
    \/ GetLastRound
    \/ EnterReceiver
    \/ OpenConnection
    \/ TransportClose
    \/ DaRecvPackage
    \/ RecvEnd
    \/ BeginTransaction
    \/ DaExecuteInstruction
    \/ DeserializeEnd
    \/ DaCommit
    \/ Rollback
    \/ ExitReceiver
    \/ Cancel

RestartSpec == InitRestart /\ [][NextRestart]_vars

\* ---------------------------------------------------------------------------
\* Properties

ValidationErrors == {"SynchronizationError", "ExecutionError"}
FatalErrors == {"SynchronizationError", "FinalizationError", "DeserializeError",
                "VerifyError"}
RoundEnded == g_outcome \notin {"none", "open"}

\* C1: atomicity of a sync round.  When the scope of a round has been left
\* because an instruction failed validation, the committed state equals the
\* committed state at begin_transaction, whatever was finalized before.
Atomicity ==
    g_outcome \in ValidationErrors => g_begin_state = Some(storage)

AtomicityWitness ==
    /\ g_outcome \in ValidationErrors
    /\ g_finalized >= 1
    /\ g_touched # {}
    /\ storage # EmptyDict

\* C2: an ExecutionError is local to its round.  The step that leaves the
\* handler has rolled back and has not re-raised: main waits for the next package, the error is neither in
\* flight outside the scope nor the outcome of the task, and no transaction
\* stays open.
ExecutionErrorIsLocal ==
    /\ [][(pc = "rollback" /\ exc = "ExecutionError" /\ pc' # pc)
            => (pc' = "recv" /\ exc' = "" /\ g_rollbacks' = g_rollbacks + 1
                /\ temp' = None /\ st_sync_round' = None)]_vars
    /\ [](g_outcome = "ExecutionError"
            => /\ g_rollbacks = 1 /\ g_commits = 0
               /\ exc # "ExecutionError" /\ result # "ExecutionError"
               /\ temp = None /\ st_sync_round = None)

\* a round is committed after an earlier round of the same run was dropped
ExecutionErrorIsLocalWitness ==
    /\ g_dropped
    /\ g_outcome = "committed"
    /\ g_run = runs
    /\ g_finalized >= 1

MalformedAndConstraintErrorsAreLocal ==
    g_outcome \in {"DeserializeError", "FinalizationError"}
        => (exc # g_outcome /\ result # g_outcome)

\* C4, amended: both are fatal.  After the rollback the exception leaves the
\* scope of the round and becomes the outcome of the main task.
MalformedAndConstraintErrorsAreFatal ==
    (g_outcome \in {"DeserializeError", "FinalizationError"} /\ g_run = runs)
        => /\ g_rollbacks = 1
           /\ temp = None /\ st_sync_round = None
           /\ \/ pc = "exit_recv" /\ exc = g_outcome
              \/ pc = "done" /\ result = g_outcome

MalformedAndConstraintErrorsAreFatalWitness ==
    /\ pc = "done"
    /\ result = "FinalizationError"
    /\ g_outcome = "FinalizationError"
    /\ g_run = runs

\* C5: the sync-round state machine.  No begin_transaction finds a
\* transaction open; a round whose scope was left got exactly one of commit
\* and rollback; and commit is what a round gets exactly when the whole
\* package was executed without error.
SyncRoundStateMachine ==
    /\ ~g_overlap
    /\ g_commits + g_rollbacks <= 1
    /\ RoundEnded => g_commits + g_rollbacks = 1
    /\ RoundEnded => (g_commits = 1 <=> g_outcome = "committed")
    /\ (pc \in {"recv", "begin", "done"}) => st_sync_round = None

\* C6: validation by stored revision.  For the last instruction checked, with
\* s the stored revision and r its own: s < r ended the round with
\* SynchronizationError, s > r with ExecutionError (a round that is dropped
\* with the committed state intact), and one that was finalized had s = r.
ValidationByStoredRevision ==
    g_checked # None =>
        LET s == Get(g_checked).stored
            r == Get(g_checked).revision
            raised == IF pc = "rollback" THEN exc ELSE g_outcome
        IN  /\ s < r => raised = "SynchronizationError"
            /\ s > r => raised = "ExecutionError"
            /\ raised \notin ValidationErrors => s = r
            /\ g_outcome = "ExecutionError" => g_begin_state = Some(storage)

ValidationByStoredRevisionWitness ==
    /\ g_checked # None
    /\ Get(g_checked).stored > Get(g_checked).revision
    /\ Get(g_checked).revision > 0
    /\ g_outcome = "ExecutionError"
    /\ g_finalized >= 1

\* C7 as stated: in every round R, R = 0 included, an instruction whose
\* revision is >= R fails validation with SynchronizationError and is not
\* finalized.
RevisionMustBeInThePast ==
    (g_checked # None /\ Get(g_checked).revision >= g_round)
        => (IF pc = "rollback" THEN exc ELSE g_outcome) = "SynchronizationError"

\* C7, amended: the same for every round R >= 1 (in round 0
\* Layer._check_instruction leaves the test out; Finalizer._check_instruction
\* rejects such an instruction in every round).
RevisionMustBeInThePastOfRound ==
    /\ (g_checked # None /\ g_round >= 1 /\ Get(g_checked).revision >= g_round)
         => (IF pc = "rollback" THEN exc ELSE g_outcome) = "SynchronizationError"
    /\ (g_checked # None /\ Get(g_checked).revision >= g_round)
         => Get(g_checked).finalizer = "ExecutionCritical"

RevisionMustBeInThePastOfRoundWitness ==
    /\ g_checked # None
    /\ g_round >= 2
    /\ Get(g_checked).revision = g_round
    /\ Get(g_checked).stored = g_round
    /\ g_finalized >= 1
    /\ g_outcome = "SynchronizationError"

\* C8: cancellation rolls back.  When the main task has ended after being
\* cancelled inside a round, rollback_transaction was called for the round
\* and the storage has no transaction open.
CancellationRollsBack ==
    (pc = "done" /\ g_outcome = "CancelledError")
        => (g_rollbacks = 1 /\ temp = None /\ st_sync_round = None)

RevisionMonotonicity ==
    /\ \A o \in DOMAIN storage : storage[o].revision <= g_round
    /\ g_outcome = "committed"
         => \A o \in g_touched :
               o \in DOMAIN storage /\ storage[o].revision = g_round

RevisionMonotonicityWitness ==
    /\ g_outcome = "committed"
    /\ g_touched # {}
    /\ \E o \in DOMAIN storage : storage[o].revision < g_round

\* C11: get_last_round() is the last completed sync round.  After round R has
\* been committed and until a later round is begun, get_last_round() = R,
\* whatever the round did (create, update, delete only, nothing).
LastRoundIsLastCommitted ==
    g_outcome = "committed" => get_last_round(storage) = g_round

\* C12: ordering of the receiver.  The sync_round values one connection's
\* recv_packages yields are strictly increasing.
YieldedRoundsIncrease ==
    g_prev_yield # None => Get(g_prev_yield) < Get(g_last_yield)

TransmitterCloseError ==
    /\ [][(/\ tx_pc = "body"
            /\ last_error[tx_connection] # ""
            /\ tx_pc' = "exit"
            /\ tx_exc' \notin {"BodyError", "CancelledError"})
            => (/\ tx_exc' = do_close_exc
                /\ accum' = accum
                /\ g_sent' = g_sent
                /\ tx_sync_round' = None
                /\ tx_sent_count' = 0)]_vars
    /\ []((tx_pc \in {"exit", "done"} /\ tx_exc = do_close_exc)
            => (tx_sync_round = None /\ tx_sent_count = 0))
    /\ [][(/\ last_error' # last_error
            /\ connections' = connections
            /\ g_closed' = g_closed)
            => (accum' = accum /\ g_sent' = g_sent)]_vars

TransmitterCloseErrorWitness ==
    /\ tx_pc = "done"
    /\ tx_exc = do_close_exc
    /\ tx_scopes = 2
    /\ instructions # <<>>
    /\ Len(g_sent) = 1
    /\ accum = g_sent

\* C17: a close by Transport.close() is no error for a receiver.  When the
\* connection is closed the receiver's iterator ends and nothing is raised
\* into the consumer, and what the receiver has yielded is at every moment a
\* prefix, in order, of the items sent from from_round on.
ReceiverEndsOnClose ==
    /\ [][(rx_pc = "recv" /\ rx_pc' = "exit" /\ rx_exc' # "CancelledError")
            => (rx_exc' = "" /\ last_error[rx_connection] = do_close_exc)]_vars
    /\ [](LET wanted(item) == item[1] >= rx_from_round
              expected == SelectSeq(g_sent, wanted)
          IN  /\ Len(g_yielded) <= Len(expected)
              /\ SubSeq(expected, 1, Len(g_yielded)) = g_yielded)

ReceiverEndsOnCloseWitness ==
    /\ rx_pc = "done"
    /\ rx_exc = ""
    /\ Len(g_yielded) = 1
    /\ Len(g_sent) = 2
    /\ accum # <<>>
    /\ rx_from_round <= 1

\* C18: idempotence of close.  In every state of the transport, calling
\* Transport.close() twice leaves every connection as calling it once does
\* (the pool is not touched by close); the same holds for Connection.close()
\* of the test connection and of the DA connection.
CloseIsIdempotent ==
    /\ transport_close(connections, transport_close(connections, last_error))
          = transport_close(connections, last_error)
    /\ \A c \in DOMAIN last_error :
          connection_close(connection_close(last_error[c]))
              = connection_close(last_error[c])
    /\ \A a \in ApiValues : celestia_close(celestia_close(a)) = celestia_close(a)

CloseIsIdempotentWitness ==
    \E c \in connections, d \in connections :
        /\ last_error[c] = ""
        /\ last_error[d] = do_close_exc
        /\ transport_close(connections, last_error) # last_error

\* C19: send_package and recv_packages are legal only while the connection
\* is Open.  Called on a connection never opened or closed, each fails with
\* ConnectionClosed and reaches no call on the DA node.
SendRecvOnlyWhileOpen ==
    (/\ g_call # None
     /\ Get(g_call).op \in {"send_package", "recv_packages"}
     /\ Get(g_call).api # "NodeAPI")
        => (call_exc = "ConnectionClosed" /\ ~g_node_calls)

\* C20: connection lifecycle New -> Open -> Closed.  open_connection on a
\* connection that is Open or Closed fails and changes nothing, and a Closed
\* connection stays Closed.
LifecycleIsOneWay ==
    /\ [][api = "None" => api' = "None"]_vars
    /\ []((/\ g_call # None
            /\ Get(g_call).op = "open_connection"
            /\ Get(g_call).api # "NodeAPI | None")
            => (call_exc # "" /\ api = Get(g_call).api))

\* C21: finalize_instruction for an UPDATE succeeds exactly when the working
\* copy holds the oid with the instruction's revision; it then stores the
\* round number with the old value in which exactly the attributes named in
\* the payload are replaced, and touches no other entry.
UpdateMergesNamedAttributes ==
    (temp # None /\ st_sync_round # None) =>
        \A instruction \in Instructions :
            method(instruction) = "UPDATE" =>
                LET tmp == Get(temp)
                    oid == instruction.oid
                    fin == finalize_instruction(tmp, st_sync_round, instruction)
                    held == /\ oid \in DOMAIN tmp
                            /\ tmp[oid].revision = instruction.revision
                IN  /\ fin.ok <=> held
                    /\ held =>
                          /\ DOMAIN fin.temp = DOMAIN tmp
                          /\ fin.temp[oid].revision = Get(st_sync_round)
                          /\ \A a \in Attrs :
                                IF \E v \in Vals : <<a, v>> \in instruction.payload
                                THEN <<a, fin.temp[oid].value[a]>> \in instruction.payload
                                ELSE fin.temp[oid].value[a] = tmp[oid].value[a]
                          /\ \A o \in (DOMAIN tmp) \ {oid} : fin.temp[o] = tmp[o]

\* an UPDATE of an entry of an earlier round has been finalized: one attribute
\* changed, the other kept, the revision is the round's
UpdateMergesNamedAttributesWitness ==
    /\ pc = "deser"
    /\ g_finalized = 1
    /\ g_checked # None
    /\ Get(g_checked).revision # 0
    /\ \E o \in (DOMAIN storage) \cap (DOMAIN Get(temp)) :
          /\ storage[o].revision = Get(g_checked).revision
          /\ storage[o].revision < g_round
          /\ Get(temp)[o].revision = g_round
          /\ \E a \in Attrs, b \in Attrs :
                /\ Get(temp)[o].value[a] # storage[o].value[a]
                /\ Get(temp)[o].value[b] = storage[o].value[b]

\* C22: finalize_instruction for a DELETE succeeds exactly when the working
\* copy holds the oid with the instruction's revision, and removes that entry
\* only; the oid stays out of the working copy for the rest of the round, and
\* after the commit it is absent from the committed state, where
\* get_revision_for gives 0.
DeleteRemovesEntry ==
    /\ []((temp # None /\ st_sync_round # None) =>
            \A instruction \in Instructions :
                method(instruction) = "DELETE" =>
                    LET tmp == Get(temp)
                        oid == instruction.oid
                        fin == finalize_instruction(tmp, st_sync_round, instruction)
                        held == /\ oid \in DOMAIN tmp
                                /\ tmp[oid].revision = instruction.revision
                    IN  /\ fin.ok <=> held
                        /\ held =>
                              /\ DOMAIN fin.temp = (DOMAIN tmp) \ {oid}
                              /\ \A o \in DOMAIN fin.temp : fin.temp[o] = tmp[o])
    /\ [][\A o \in OIDs :
             (/\ pc = "deser"
              /\ temp # None
              /\ temp' # None
              /\ g_begin_state # None
              /\ o \in DOMAIN Get(g_begin_state)
              /\ o \notin DOMAIN Get(temp))
                 => o \notin DOMAIN Get(temp')]_vars
    /\ [][(pc = "commit" /\ pc' = "recv") =>
             \A o \in OIDs \ DOMAIN Get(temp) :
                 /\ o \notin DOMAIN storage'
                 /\ get_revision_for(storage', o) = 0]_vars

\* a round whose only instruction was a DELETE has committed: no entry
\* carries the round's number and an oid is absent
DeleteRemovesEntryWitness ==
    /\ g_outcome = "committed"
    /\ g_finalized = 1
    /\ g_checked # None
    /\ Get(g_checked).revision # 0
    /\ Get(g_checked).stored = Get(g_checked).revision
    /\ \A o \in DOMAIN storage : storage[o].revision # g_round
    /\ \E o \in OIDs : o \notin DOMAIN storage /\ get_revision_for(storage, o) = 0
    /\ DOMAIN storage # {}

\* C23: a CREATE that is finalized inserts a new key with the round's number
\* and changes no entry the working copy already holds.  A CREATE addressed
\* to an oid the working copy holds, committed earlier or inserted in this
\* round, is an error and replaces nothing.
CreateOnlyInserts ==
    [][(/\ pc = "deser"
        /\ g_finalized' = g_finalized + 1
        /\ Get(g_checked').revision = 0)
          => /\ \A o \in DOMAIN Get(temp) : Get(temp')[o] = Get(temp)[o]
             /\ \E o \in (DOMAIN Get(temp')) \ (DOMAIN Get(temp)) :
                   Get(temp')[o].revision = sync_round]_vars

\* C24: round_accepted(round) is true exactly when some stored object's
\* revision equals the round; it is false on an empty storage and for a round
\* number no entry carries.
RoundAcceptedIffStored ==
    \A r \in 0..MaxRound :
        round_accepted(storage, r) <=> (\E o \in DOMAIN storage : storage[o].revision = r)

\* C25: package round trip.  Deserializing the bytes of a package built from
\* the instruction list I, the empty list included, raises nothing and yields
\* the instructions of I, as many and in the same order, with the same oid,
\* revision and payload.
PackageRoundTrip ==
    g_edit = None =>
        /\ c_pc # "raised"
        /\ c_pc = "chunks" =>
              /\ Len(c_yielded) + package_size = Len(c_instrs)
              /\ c_yielded = SubSeq(c_instrs, 1, Len(c_yielded))
        /\ c_pc = "done" => c_yielded = c_instrs

\* a package of two different instructions has been deserialized to the end
PackageRoundTripWitness ==
    /\ c_pc = "done"
    /\ g_edit = None
    /\ Len(c_instrs) = MaxChunks
    /\ c_instrs[1] # c_instrs[2]
    /\ c_yielded = c_instrs

\* positions of the built package that hold a chunk's length prefix, and
\* those that hold the content of an instruction
PrefixPositions ==
    UNION {LET start == 3 + Len(chunks(SubSeq(c_instrs, 1, k - 1)))
           IN  start..(start + Len(encode(Len(serialize(c_instrs[k])))) - 1) :
               k \in 1..Len(c_instrs)}
ContentPositions == (3..(body_end - 1)) \ PrefixPositions

\* C26: tamper detection.  When a byte inside an instruction's content has
\* been replaced, deserialize never completes normally: if every chunk still
\* parses to an instruction it fails after the last chunk with
\* "Wrong package hash", and if a chunk no longer parses it fails with
\* "Cannot deserialize instruction".
TamperDetected ==
    (/\ g_edit # None
     /\ Get(g_edit).kind = "replace"
     /\ Get(g_edit).pos \in ContentPositions)
        => /\ c_pc # "done"
           /\ c_pc = "raised" =>
                 IF Len(c_yielded) = Len(c_instrs)
                 THEN c_exc = "Wrong package hash"
                 ELSE c_exc = "Cannot deserialize instruction"

\* a replaced content byte left both instructions parsable, one of them
\* changed, and the hash check after the last chunk failed
TamperDetectedWitness ==
    /\ g_edit # None
    /\ Get(g_edit).kind = "replace"
    /\ Get(g_edit).pos \in ContentPositions
    /\ c_pc = "raised"
    /\ c_exc = "Wrong package hash"
    /\ Len(c_instrs) = MaxChunks
    /\ Len(c_yielded) = Len(c_instrs)
    /\ c_yielded # c_instrs

\* C27: in a built package with the digest flag set the stored digest is
\* SHA-256 over the header and the body (the flags|version byte, the count
\* and the chunks), and a replaced header byte makes the hash check of
\* deserialize fail.
DigestCoversHeader ==
    /\ (/\ c_pc = "built"
        /\ g_edit = None
        /\ flag_digest(pkg[1]))
           => digest(pkg) = Some(sha256(SubSeq(pkg, 1, 3) \o body(pkg)))
    /\ (/\ g_edit # None
        /\ Get(g_edit).kind = "replace"
        /\ Get(g_edit).pos \in 0..2
        /\ flag_digest(g_built[1]))
           => c_pc # "done"

\* C28: digest law.  In a built package with the digest flag set, signed or
\* not, the digest accessor gives sha256 of the body accessor and has 32
\* bytes; body, digest and signature follow each other without gap or
\* overlap, and with the 3 header bytes their lengths add up to the length
\* of the package.
DigestLaw ==
    (/\ c_pc # "new"
     /\ g_edit = None
     /\ flag_digest(pkg[1]))
        => /\ digest(pkg) = Some(sha256(body(pkg)))
           /\ Len(Get(digest(pkg))) = digest_size
           /\ get_body_slice(pkg).pos = 3
           /\ get_body_slice(pkg).size = Len(body(pkg))
           /\ get_digest_slice(pkg).pos = 3 + Len(body(pkg))
           /\ IF flag_signature(pkg[1])
              THEN /\ get_signature_slice(pkg).pos = get_digest_slice(pkg).pos + digest_size
                   /\ Len(Get(signature(pkg))) = sign_size
                   /\ Len(pkg) = 3 + Len(body(pkg)) + digest_size + sign_size
              ELSE /\ signature(pkg) = None
                   /\ Len(pkg) = 3 + Len(body(pkg)) + digest_size

\* a package of two instructions has been built and signed
DigestLawWitness ==
    /\ c_pc = "built"
    /\ g_edit = None
    /\ Len(c_instrs) = MaxChunks
    /\ c_signs = 1
    /\ sign_exc = ""
    /\ flag_digest(pkg[1])
    /\ flag_signature(pkg[1])
    /\ body(pkg) = chunks(c_instrs)

\* C29: chunk-count check.  When the bytes end inside the body, within a
\* length prefix or within a chunk, before the N chunks of the header count
\* have been read, deserialize fails with "Wrong package size" and yields no
\* chunk shorter than its declared length.
TruncationIsWrongSize ==
    (/\ g_edit # None
     /\ Get(g_edit).kind = "cut"
     /\ Get(g_edit).pos \in 3..(body_end - 1))
        => /\ ~g_short
           /\ c_pc # "done"
           /\ c_pc = "raised" => c_exc = "Wrong package size"

\* C30: flag invariant.  In every package as build and sign return it the
\* signature flag is set only if the digest flag is set; sign raises
\* SignError on a package without digest flag and on one with the signature
\* flag; and a sign that succeeds sets bit 7 of byte 0, appends 64 bytes and
\* leaves every other byte, hence body and digest, as they were.
FlagInvariant ==
    /\ (/\ c_pc # "new"
        /\ g_edit = None
        /\ flag_signature(pkg[1]))
           => flag_digest(pkg[1])
    /\ (c_pc # "new" /\ Len(pkg) > 0) =>
          \A key \in Keys :
              LET signed == sign(pkg, key)
              IN  /\ ~flag_digest(pkg[1]) => signed.exc = "SignError"
                  /\ flag_signature(pkg[1]) => signed.exc = "SignError"
                  /\ signed.exc = "" =>
                        /\ Len(signed.package) = Len(pkg) + sign_size
                        /\ signed.package[1] = pkg[1] + 128
                        /\ SubSeq(signed.package, 2, Len(pkg)) = Tail(pkg)
                        /\ body(signed.package) = body(pkg)
                        /\ digest(signed.package) = digest(pkg)

\* C31: the identifier of a package on the DA-backed connection is
\* (height << 16) | blob_index: for all heights and blob indexes, shifting the
\* value send_package returned right by 16 gives the height of the blob, and
\* recv_packages yields that value for that blob and for no other one.
CompositeSyncRound ==
    /\ [](g_sent_blob # None =>
             Get(g_sent_blob).sync_round \div Shift16 = Get(g_sent_blob).height)
    /\ [][(recv_pc = "yield" /\ blobs' # blobs /\ g_sent_blob # None) =>
             ((Get(g_last_yield') = Get(g_sent_blob).sync_round)
                 <=> (/\ height = Get(g_sent_blob).height
                      /\ Head(blobs) = Get(g_sent_blob).index))]_vars

\* the first height recv_packages(from_round) fetches: max(from_height, 1)
first_height ==
    IF recv_from_round \div Shift16 > 1 THEN recv_from_round \div Shift16 ELSE 1

\* C32: whatever headers the subscription delivers (heights skipped, repeated
\* or older than those processed), the heights from max(from_height, 1) up to
\* the largest curr_height observed are fetched exactly once each and in
\* increasing order; a header below from_height fetches nothing, and after
\* each catch-up from_height = curr_height + 1.
ReceiverCatchUp ==
    /\ [](\A i \in 1..Len(g_fetched) : g_fetched[i] = first_height + i - 1)
    /\ [](recv_pc = "subscribed" =>
             Len(g_fetched) = Cardinality(first_height..g_max_curr))
    /\ [][(recv_pc = "subscribed" /\ recv_pc' = "get_all") =>
             from_height <= curr_height']_vars
    /\ [][(recv_pc \in {"get_all", "yield"} /\ recv_pc' = "subscribed") =>
             from_height' = curr_height + 1]_vars

\* heights 1 and 2 have been fetched, and a header older than them came later
ReceiverCatchUpWitness ==
    /\ recv_pc = "subscribed"
    /\ g_fetched = <<1, 2>>
    /\ g_max_curr = 2
    /\ curr_height = 1
    /\ from_height = 3

\* C33: recv_packages(from_round) begins retrieval at from_round: it yields
\* no item whose sync_round is smaller than from_round, so no blob of the
\* height from_round >> 16 with an index below the low 16 bits of from_round.
YieldsFromRound ==
    g_last_yield # None => Get(g_last_yield) >= recv_from_round

\* C34: once close() has been called on a connection, its recv_packages
\* iterator yields no further package, not even the remaining blobs of a
\* height already fetched.
NoYieldAfterClose ==
    [][api = "None" => ~(recv_pc = "yield" /\ blobs' # blobs)]_vars

\* the exceptions a transmitter scope's body leaves with
BodyErrors == {"BodyError", "CancelledError"}

\* C35: if the body of a transmitter scope raises, send_package is not
\* called (no package is built or submitted), the transmitter's sync_round
\* stays None and its sent_count 0, the exception raised by the body is the
\* one that leaves the scope, and the connection is closed and taken out of
\* the pool.
TransmitterAbort ==
    (tx_pc \in {"exit", "done"} /\ tx_exc \in BodyErrors) =>
        /\ g_sends = 0
        /\ tx_sync_round = None
        /\ tx_sent_count = 0
        /\ tx_pc = "done" =>
              /\ tx_connection \notin connections
              /\ tx_connection \in g_closed
              /\ last_error[tx_connection] = do_close_exc

\* a scope that had accumulated instructions has ended by its body's exception
TransmitterAbortWitness ==
    /\ tx_pc = "done"
    /\ tx_exc = "BodyError"
    /\ Len(instructions) > 0
    /\ accum = <<>>

\* C36: a Layer started on a storage that holds the committed rounds up to R
\* asks for the packages from get_last_round() + 1 on and executes no package
\* of a sync round <= R again: no transaction is begun for such a round, so
\* the re-delivery of a committed package can neither raise a fatal
\* SynchronizationError nor change the committed state.
SafeRestart ==
    pc \in {"begin", "deser", "commit", "rollback"} =>
        \A r \in g_committed : sync_round > r

\* C37: deserialize yields the instructions of a package before its digest
\* is checked, and the Layer finalizes them into the working copy as they
\* arrive; yet when the digest does not match, none of them reaches the
\* committed state: nothing is committed while the VerifyError is in flight,
\* and after the rollback the committed state is the one the round began with.
LazyVerificationIsSafe ==
    /\ [][exc = "VerifyError" => storage' = storage]_vars
    /\ [](g_outcome = "VerifyError" =>
             /\ g_begin_state = Some(storage)
             /\ g_commits = 0
             /\ temp = None)

\* a round that had finalized instructions, one of them changing the working
\* copy, was rolled back for its digest
LazyVerificationIsSafeWitness ==
    /\ g_outcome = "VerifyError"
    /\ g_finalized > 0
    /\ g_touched # {}
    /\ g_rollbacks = 1

\* the stored oids an UPDATE or DELETE of the round in progress has been
\* finalized for: their entry in the working copy is gone or not the
\* committed one
AddressedInRound ==
    {o \in DOMAIN storage :
        \/ o \notin DOMAIN Get(temp)
        \/ Get(temp)[o] # storage[o]}

\* C38: validation reads the committed state, not the working copy of the
\* round.  In a round where an UPDATE or DELETE has been finalized for an
\* oid, every further UPDATE or DELETE addressed to that oid either fails
\* validation or passes it against the committed revision and is then
\* rejected by finalize_instruction, which ends the round with
\* FinalizationError; so no round with two of them is committed.
SecondInstructionForOidRejected ==
    (pc = "deser" /\ temp # None) =>
        \A i \in Instructions :
            (method(i) \in {"UPDATE", "DELETE"} /\ i.oid \in AddressedInRound) =>
                \/ check_instruction(i, storage, sync_round) # "ok"
                \/ ~finalize_instruction(Get(temp), st_sync_round, i).ok

\* after an instruction was finalized, a second one for the same oid has
\* passed validation with the committed revision and failed in
\* finalize_instruction
SecondInstructionForOidRejectedWitness ==
    /\ pc = "rollback"
    /\ exc = "FinalizationError"
    /\ g_finalized > 0
    /\ AddressedInRound # {}
    /\ Get(g_checked).revision > 0
    /\ Get(g_checked).stored = Get(g_checked).revision

\* the oids the instructions of the package of the round in progress address
PackageOids ==
    LET package == chain[sync_round \div Shift16]
    IN  {package[k].oid : k \in 1..Len(package)}

\* no transaction is open, and finalize_instruction raises for every instruction
NoTransaction ==
    /\ temp = None
    /\ st_sync_round = None
    /\ \A i \in DaInstructions :
          ~finalize_instruction(storage, st_sync_round, i).ok

\* C39: commit_transaction of a round changes only the entries whose oid an
\* instruction of the round addressed (every other entry keeps its revision
\* and its value, and none appears), and clears the working copy and the
\* current round; rollback_transaction leaves the committed state as it is
\* and clears them too, so that a finalize_instruction that follows without
\* begin_transaction is rejected.
CommitRollbackFrame ==
    /\ [][(pc = "commit" /\ pc' = "recv") =>
             /\ \A o \in OIDs \ PackageOids :
                   /\ o \in DOMAIN storage' <=> o \in DOMAIN storage
                   /\ o \in DOMAIN storage => storage'[o] = storage[o]
             /\ NoTransaction']_vars
    /\ [][(pc = "rollback" /\ pc' # pc) =>
             /\ storage' = storage
             /\ NoTransaction']_vars

\* a round has been committed that wrote one entry and left another, which
\* its package did not address, as an earlier round had written it; and
\* a round before it in the same run was rolled back
CommitRollbackFrameWitness ==
    /\ pc = "recv"
    /\ g_outcome = "committed"
    /\ g_dropped
    /\ \E o \in DOMAIN storage : storage[o].revision = sync_round
    /\ \E o \in DOMAIN storage \ PackageOids : storage[o].revision < sync_round

====
